---- MODULE Spec2Model ----
(***************************************************************************)
(* RCM-Generator: the dataset of failure-mode records held by App          *)
(* (results), its undo history, the copilot's proposals and the handlers   *)
(* of App.tsx, AICopilot.tsx and AnalysisResult.tsx that replace the       *)
(* dataset.                                                                *)
(*                                                                         *)
(* A record of the dataset is a TLA+ record                                *)
(*   [id, component, criticality, severity, occurrence, detection, rpn,    *)
(*    isNew, inspectionSheet].                                             *)
(* component stands for the free-text fields of RCMItem (function,         *)
(* failureMode, maintenanceTask, ...): every handler modelled here carries *)
(* them the way it carries component.  A partial record (a proposal's      *)
(* item, a raw generation item) is a record whose DOMAIN holds only the    *)
(* keys that are present.  Ids are naturals; 0 is the empty string, the    *)
(* falsy id.  Score 0 is the falsy number.                                 *)
(***************************************************************************)
EXTENDS Integers, Sequences, FiniteSets, TLC

VARIABLES
  results,    \* App.results: [isNull, items]
  history,    \* App.history: sequence of snapshots (sequences of records)
  isMerging,  \* App.isMerging
  gen,        \* handleGenerate in flight: [active, merging, cap]
  messages,   \* AICopilot.messages, flattened to their proposals
  edit,       \* AnalysisResult.editingId / editForm: [active, id, form]
  regen,      \* handleSave awaiting generateInspectionSheet: [active, id, newData, cap]
  sheetJob,   \* handleGenerateSingleSheet awaiting: [active, id, cap]
  nextId,     \* the id generator: number of ids handed out so far
  undoLog,    \* SpecUndo's record of its run: [trail, undos]; no handler reads it
  reply,      \* the copilot's response: [text, cleanText, shown]
  contextText,\* App.contextText
  studyStore, \* the document last handed to saveStudyToDB: [isEmpty, items, auto]
  saves,      \* handleSaveStudy calls awaiting the store: [isAutoSave, currentId, idToSave]
  currentStudyId, \* App.currentStudyId; "" is null
  justSaved,  \* App.justSaved
  clipboard,  \* the text last given to navigator.clipboard.writeText: [format, text]
  view,       \* AnalysisResult.matrixFilter, barFilter, sortConfig and viewSheet
  bulk        \* handleGenerateAllSheets in flight and AnalysisResult.generatingSheets

prog == <<results, history, isMerging, gen, messages, edit, regen, sheetJob, nextId>>
study == <<contextText, studyStore, saves, currentStudyId, justSaved>>
io == <<reply, study, clipboard, view, bulk>>
vars == <<prog, undoLog, io>>

(***************************************************************************)
(* Bounds of the model.                                                    *)
(***************************************************************************)
MaxRecords == 2      \* Spec, SpecApply: records of the dataset
MaxIds == 2          \* Spec, SpecEdit: ids the generator hands out in one behaviour
MaxProposals == 1    \* Spec: proposals held by the chat at a time
MaxDepth == 1        \* Spec: snapshots held by the history
MaxEditRecords == 1  \* SpecEdit: records of the dataset
MaxEditDepth == 3    \* SpecEdit: snapshots held by the history
MaxJobs == 1         \* SpecEdit: requests awaited at a time
MaxMutations == 31   \* SpecUndo: mutations made before the undos
MaxSegments == 3     \* SpecParse: segments of a response text
MaxSaves == 2        \* SpecSave: saves awaiting the store at a time
MaxCellLen == 2      \* SpecExport: characters of a free-text field
MaxViewRecords == 3  \* SpecView: records of the dataset
MaxBulkRecords == 4  \* SpecBulk: records of the dataset
MaxBulkDepth == 1    \* SpecBulk: snapshots held by the history when the user changes the dataset
MaxSheetRecords == 2 \* SpecSheet: records of the dataset
MaxSheetDepth == 2   \* SpecSheet: snapshots in the history
MaxSteps == 3        \* SpecSheet: steps of a sheet handleAddStep adds to
MaxBulkSteps == 2    \* SpecBulkFair: steps the user takes

(***************************************************************************)
(* Program constants.                                                      *)
(***************************************************************************)
KeepLast == 29           \* prev.slice(-29)
HistoryLimit == 30       \* the snapshots the history holds: the 29 kept and the one pushed

(***************************************************************************)
(* Values.                                                                 *)
(***************************************************************************)
NoSheet == [present |-> FALSE, steps |-> <<>>]
NullResults == [isNull |-> TRUE, items |-> <<>>]
Data(items) == [isNull |-> FALSE, items |-> items]

Has(item, f) == f \in DOMAIN item
\* JS truthiness of a numeric or a string key of a partial record
TruthyNum(item, f) == Has(item, f) /\ item[f] # 0
TruthyStr(item, f) == Has(item, f) /\ item[f] # ""

\* { ...a, ...b }
Spread(a, b) == [f \in (DOMAIN a) \cup (DOMAIN b) |-> IF f \in DOMAIN b THEN b[f] ELSE a[f]]

Front(s) == SubSeq(s, 1, Len(s) - 1)
Last(s) == s[Len(s)]
Range(s) == {s[i] : i \in 1..Len(s)}

(***************************************************************************)
(* AnalysisResult.tsx 434-436: every render of the table sorts its data    *)
(* prop in place (data.sort) by rpn, highest first.  Array.prototype.sort  *)
(* is stable.  data is the array held by App.results, so after the render  *)
(* that follows a setResults the dataset itself is in this order.          *)
(***************************************************************************)
\* the place the sort gives s[i]: after the records of a higher rpn and after
\* the records of the same rpn that stand before it
PlaceByRpn(s, i) ==
  1 + Cardinality({j \in 1..Len(s) : s[j].rpn > s[i].rpn})
    + Cardinality({j \in 1..(i - 1) : s[j].rpn = s[i].rpn})

SortedByRpn(s) ==
  [k \in 1..Len(s) |-> s[CHOOSE i \in 1..Len(s) : PlaceByRpn(s, i) = k]]

topRisks(items) == SortedByRpn(items)

\* setResults(newData) and the render it schedules
Rendered(items) == Data(topRisks(items))

(***************************************************************************)
(* App.tsx 273-285: the update entry point and undo.                       *)
(***************************************************************************)
\* C3's mutant: the push without the slice
PushSnapshotUntrimmed(prev, snapshot) == Append(prev, snapshot)

\* [...prev.slice(-29), snapshot]
PushSnapshot(prev, snapshot) ==
  Append(SubSeq(prev, IF Len(prev) > KeepLast THEN Len(prev) - KeepLast + 1 ELSE 1, Len(prev)),
         snapshot)

\* handleResultsUpdate of the render whose results was cap: the history it leaves
HistoryAfterUpdate(cap) ==
  IF cap.isNull THEN history ELSE PushSnapshot(history, cap.items)

\* C4's mutant: the snapshot pushed is the new dataset
handleResultsUpdatePushesNew(cap, newData) ==
  /\ history' = (IF cap.isNull THEN history ELSE PushSnapshot(history, newData))
  /\ results' = Rendered(newData)

\* handleResultsUpdate(newData), called from a closure that holds results = cap
handleResultsUpdate(cap, newData) ==
  /\ history' = HistoryAfterUpdate(cap)
  /\ results' = Rendered(newData)

(***************************************************************************)
(* AICopilot.tsx 733-802: applySingleAction.                               *)
(***************************************************************************)
\* s >= 8 ? 'High' : s >= 5 ? 'Medium' : 'Low'
DerivedCriticality(s) == IF s >= 8 THEN "High" ELSE IF s >= 5 THEN "Medium" ELSE "Low"

\* Number(x) || dflt
NumberOr(item, f, dflt) == IF TruthyNum(item, f) THEN item[f] ELSE dflt
\* x || dflt
StringOr(item, f, dflt) == IF TruthyStr(item, f) THEN item[f] ELSE dflt

\* the ADD branch's newItem
NewItem(item, newId) ==
  LET s == NumberOr(item, "severity", 5)
      o == NumberOr(item, "occurrence", 3)
      d == NumberOr(item, "detection", 3)
  IN [id |-> newId,
      component |-> StringOr(item, "component", "Auxiliary Component"),
      criticality |-> StringOr(item, "criticality", DerivedCriticality(s)),
      severity |-> s, occurrence |-> o, detection |-> d,
      rpn |-> s * o * d,
      isNew |-> TRUE,
      inspectionSheet |-> NoSheet]

\* C11's mutant: a record with the item's component matches when the id is not its own
IsMatchOrComponent(rec, item) ==
  \/ TruthyNum(item, "id") /\ rec.id = item.id
  \/ Has(item, "component") /\ rec.component = item.component

\* proposal.item?.id ? item.id === proposal.item.id : item.component === proposal.item?.component
IsMatch(rec, item) ==
  IF TruthyNum(item, "id") THEN rec.id = item.id
  ELSE Has(item, "component") /\ rec.component = item.component

\* C9's mutant: rpn taken from the scores the record had before the merge
UpdatedItemStaleRpn(rec, item) ==
  [Spread(rec, item) EXCEPT !.isNew = FALSE,
                            !.rpn = rec.severity * rec.occurrence * rec.detection]

\* the UPDATE branch's updated
UpdatedItem(rec, item) ==
  LET merged == [Spread(rec, item) EXCEPT !.isNew = FALSE]
  IN [merged EXCEPT !.rpn = merged.severity * merged.occurrence * merged.detection]

UpdateData(items, item) ==
  [i \in 1..Len(items) |-> IF IsMatch(items[i], item) THEN UpdatedItem(items[i], item) ELSE items[i]]

\* C12's mutant: without an id the records with the item's component are removed
DeleteDataOrComponent(items, item) ==
  IF TruthyNum(item, "id") THEN SelectSeq(items, LAMBDA r : r.id # item.id)
  ELSE SelectSeq(items, LAMBDA r : ~(Has(item, "component") /\ r.component = item.component))

DeleteData(items, item) ==
  IF TruthyNum(item, "id") THEN SelectSeq(items, LAMBDA r : r.id # item.id) ELSE items

\* newData of applySingleAction
ApplyProposal(items, p, newId) ==
  CASE p.type = "ADD" -> Append(items, NewItem(p.item, newId))
    [] p.type = "UPDATE" -> UpdateData(items, p.item)
    [] p.type = "DELETE" -> DeleteData(items, p.item)
    [] OTHER -> items

(***************************************************************************)
(* AICopilot.tsx 618-647: parseAIResponse.  A text is a sequence of        *)
(* tokens: the markers <ACTION> and </ACTION>, a run of words, a run of    *)
(* white space, or the text of a JSON value.  A JSON value is held as the  *)
(* elements of Array.isArray(rawAction) ? rawAction : [rawAction]; an      *)
(* element is an object (a record of the keys present) or null.            *)
(***************************************************************************)
Open == [kind |-> "<ACTION>", actions |-> <<>>]
Close == [kind |-> "</ACTION>", actions |-> <<>>]
Words == [kind |-> "words", actions |-> <<>>]
Space == [kind |-> "space", actions |-> <<>>]
Json(actions) == [kind |-> "json", actions |-> actions]
JsonNull == [isNull |-> TRUE]
EmptyObject == [f \in {} |-> FALSE]

Least(S) == CHOOSE i \in S : \A j \in S : i <= j

\* actionRegex.exec(text) with lastIndex at token from: the first <ACTION> at
\* or after from that a </ACTION> follows and the first </ACTION> after it
\* (the group is lazy), <<0, 0>> for null
Exec(text, from) ==
  LET closes(i) == {j \in (i + 1)..Len(text) : text[j] = Close}
      opens == {i \in from..Len(text) : text[i] = Open /\ closes(i) # {}}
  IN IF opens = {} THEN <<0, 0>> ELSE <<Least(opens), Least(closes(Least(opens)))>>

\* the matches the while loop sees, lastIndex moving past each
RECURSIVE MatchesFrom(_, _)
MatchesFrom(text, from) ==
  LET match == Exec(text, from)
  IN IF match[1] = 0 THEN <<>> ELSE <<match>> \o MatchesFrom(text, match[2] + 1)

\* C13's mutant: the first match only (an if where the while is)
MatchesFirstOnly(text) ==
  LET match == Exec(text, 1) IN IF match[1] = 0 THEN <<>> ELSE <<match>>

Matches(text) == MatchesFrom(text, 1)

\* JSON.parse(match[1]) returns: one JSON value, white space around it allowed
Parses(payload) ==
  LET value == SelectSeq(payload, LAMBDA t : t # Space)
  IN Len(value) = 1 /\ value[1].kind = "json"

\* Array.isArray(rawAction) ? rawAction : [rawAction]
ParsedActions(payload) == SelectSeq(payload, LAMBDA t : t # Space)[1].actions

\* a && typeof a === 'object' && (a.item || a.type === 'DELETE')
Qualifies(a) ==
  /\ a # JsonNull
  /\ \/ Has(a, "item") /\ a.item # JsonNull
     \/ Has(a, "type") /\ a.type = "DELETE"

\* { ...a, id, applied: false, item: a.item || {} }
ToProposal(a) ==
  [type |-> IF Has(a, "type") THEN a.type ELSE "",
   item |-> IF Has(a, "item") /\ a.item # JsonNull THEN a.item ELSE EmptyObject,
   applied |-> FALSE]

\* the proposals actions.forEach pushes
PushedProposals(actions) ==
  LET kept == SelectSeq(actions, Qualifies)
  IN [i \in 1..Len(kept) |-> ToProposal(kept[i])]

\* cleanText.replace(match[0], ''): the first occurrence is removed
RemoveFirst(s, sub) ==
  LET starts == {i \in 1..(Len(s) - Len(sub) + 1) : SubSeq(s, i, i + Len(sub) - 1) = sub}
  IN IF starts = {} THEN s
     ELSE SubSeq(s, 1, Least(starts) - 1) \o SubSeq(s, Least(starts) + Len(sub), Len(s))

\* the body of the while loop over the matches: proposals and cleanText
RECURSIVE ParseMatches(_, _, _)
ParseMatches(text, matches, acc) ==
  IF matches = <<>> THEN acc
  ELSE LET match == Head(matches)
           payload == SubSeq(text, match[1] + 1, match[2] - 1)
       IN ParseMatches(text, Tail(matches),
            IF Parses(payload)
            THEN [proposals |-> acc.proposals \o PushedProposals(ParsedActions(payload)),
                  cleanText |-> RemoveFirst(acc.cleanText, SubSeq(text, match[1], match[2]))]
            ELSE acc)

\* cleanText.trim()
Trim(s) ==
  LET solid == {i \in 1..Len(s) : s[i] # Space}
  IN IF solid = {} THEN <<>>
     ELSE SubSeq(s, Least(solid), CHOOSE i \in solid : \A j \in solid : j <= i)

parseAIResponse(text) ==
  LET done == ParseMatches(text, Matches(text), [proposals |-> <<>>, cleanText |-> text])
  IN [cleanText |-> Trim(done.cleanText), proposals |-> done.proposals]

(***************************************************************************)
(* geminiService.ts 204-217: generateRCMAnalysis maps the service's raw    *)
(* items to records.  A raw item has no inspectionSheet key.               *)
(***************************************************************************)
GeneratedItem(raw, newId) ==
  LET s == NumberOr(raw, "severity", 8)
      o == NumberOr(raw, "occurrence", 5)
      d == NumberOr(raw, "detection", 6)
  IN Spread(Spread([inspectionSheet |-> NoSheet], raw),
            [severity |-> s, occurrence |-> o, detection |-> d,
             rpn |-> s * o * d, id |-> newId, isNew |-> TRUE])

\* rawData.map((item, index) => ...), ids taken from the generator in order
generateRCMAnalysis(rawData, firstId) ==
  [i \in 1..Len(rawData) |-> GeneratedItem(rawData[i], firstId + i - 1)]

\* items.map(item => ({ ...item, isNew: false }))
ClearNew(items) == [i \in 1..Len(items) |-> [items[i] EXCEPT !.isNew = FALSE]]

(***************************************************************************)
(* AnalysisResult.tsx 167-266: the table's handlers.                       *)
(***************************************************************************)
NoEdit == [active |-> FALSE, id |-> 0, form |-> <<>>]
NoJob == [active |-> FALSE, id |-> 0, newData |-> <<>>, cap |-> NullResults]

\* data.find(d => d.id === id): the index of the first record with the id, 0 if none
FindIndex(items, id) ==
  IF \E i \in 1..Len(items) : items[i].id = id
  THEN CHOOSE i \in 1..Len(items) : items[i].id = id /\ \A j \in 1..(i - 1) : items[j].id # id
  ELSE 0

\* x || 1
OrOne(x) == IF x = 0 THEN 1 ELSE x

\* handleSave: hasCriticalChanges && !!originalItem.inspectionSheet
NeedsRegeneration(form, original) ==
  form.component # original.component /\ original.inspectionSheet.present

\* handleSave: updatedForm
UpdatedForm(form, original) ==
  [form EXCEPT
     !.rpn = OrOne(form.severity) * OrOne(form.occurrence) * OrOne(form.detection),
     !.inspectionSheet = IF NeedsRegeneration(form, original) THEN NoSheet
                         ELSE form.inspectionSheet]

\* data.map(item => item.id === id ? replacement : item)
ReplaceById(items, id, replacement) ==
  [i \in 1..Len(items) |-> IF items[i].id = id THEN replacement ELSE items[i]]

\* data.map(d => d.id === id ? { ...d, inspectionSheet: sheet } : d)
WithSheet(items, id, sheet) ==
  [i \in 1..Len(items) |->
     IF items[i].id = id THEN [items[i] EXCEPT !.inspectionSheet = sheet] ELSE items[i]]

(***************************************************************************)
(* Inputs.                                                                 *)
(***************************************************************************)
\* items the generation service returns (rcmSchema requires component and criticality)
RawBearing ==
  [component |-> "Test Bearing", criticality |-> "High",
   severity |-> 9, occurrence |-> 4, detection |-> 7]
RawPump == [component |-> "Pump", criticality |-> "Medium", rpn |-> 1, id |-> 1]
RawPumpLow ==
  [component |-> "Pump", criticality |-> "Low",
   severity |-> 2, occurrence |-> 0, detection |-> 11]

\* arrays the generation service returns, in the interleaved specifications
RawOutputs == { <<RawBearing>>, <<RawPump, RawPumpLow>>, <<>> }

\* SpecApply: every array of at most MaxRecords of these items
RawArrays ==
  UNION { [1..n -> {RawBearing, RawPump, RawPumpLow}] : n \in 0..MaxRecords }

\* proposals the copilot's responses carry
ChatProposals ==
  { [type |-> "ADD", item |-> [component |-> "Test Bearing",
                               severity |-> 9, occurrence |-> 4, detection |-> 7]],
    [type |-> "ADD", item |-> [id |-> 1, severity |-> 0, rpn |-> 999, isNew |-> FALSE]],
    [type |-> "UPDATE", item |-> [id |-> 1, severity |-> 2, rpn |-> 999]],
    [type |-> "UPDATE", item |-> [component |-> "Pump", detection |-> 10, isNew |-> TRUE]],
    [type |-> "UPDATE", item |-> [id |-> 0, component |-> "Pump"]],
    [type |-> "UPDATE", item |-> [id |-> 2, component |-> "Valve", criticality |-> "Low"]],
    [type |-> "UPDATE", item |-> [id |-> 9, component |-> "Pump", severity |-> 3]],
    [type |-> "DELETE", item |-> [id |-> 2]],
    [type |-> "DELETE", item |-> [component |-> "Pump"]] }

\* pieces of the texts the copilot service returns
Segments ==
  { <<Words>>,
    <<Space>>,
    <<Open, Json(<<[type |-> "ADD", item |-> [component |-> "Test Bearing"]]>>), Close>>,
    <<Open, Json(<<[type |-> "DELETE"]>>), Close>>,
    <<Open, Space, Json(<<[type |-> "UPDATE", item |-> [id |-> 1, severity |-> 2]],
                          [type |-> "UPDATE", item |-> JsonNull],
                          JsonNull>>), Close>>,
    <<Open, Words, Close>>,
    <<Open>>,
    <<Close>> }

RECURSIVE Flatten(_)
Flatten(segments) ==
  IF segments = <<>> THEN <<>> ELSE Head(segments) \o Flatten(Tail(segments))

\* SpecParse: every text of at most MaxSegments of these pieces
Texts == { Flatten(segments) : segments \in UNION { [1..n -> Segments] : n \in 0..MaxSegments } }

\* what generateInspectionSheet resolves to
SheetOutputs == { [present |-> TRUE, steps |-> <<1, 2>>] }

\* (field, value) pairs handleChange is called with: text typed as is, scores through parseInt
FormChanges == { <<"component", "Valve">>, <<"severity", 0>> }

(***************************************************************************)
(* Initial state: the useState initialisers of App, AICopilot and          *)
(* AnalysisResult.                                                         *)
(***************************************************************************)
NoGeneration == [active |-> FALSE, merging |-> FALSE, cap |-> NullResults]
NoLog == [trail |-> <<>>, undos |-> 0]
NoReply == [text |-> <<>>, cleanText |-> <<>>, shown |-> TRUE]

InitProgram ==
  /\ results = NullResults
  /\ history = <<>>
  /\ isMerging = FALSE
  /\ gen = NoGeneration
  /\ messages = <<>>
  /\ edit = NoEdit
  /\ regen = NoJob
  /\ sheetJob = NoJob
  /\ nextId = 0

NoDocument == [isEmpty |-> TRUE, items |-> <<>>, auto |-> FALSE]

NoClipboard == [format |-> "", text |-> <<>>]

\* useState(null) of the two filters, and of sortConfig
\* no handleGenerateAllSheets was called while one was in flight
NoRun == [started |-> FALSE, cap |-> NullResults, itemsToProcess |-> <<>>, promises |-> <<>>]

\* no bulk generation was started; generatingSheets is useState(false)
NoBulk ==
  [running |-> FALSE, generatingSheets |-> FALSE, cap |-> NullResults,
   itemsToProcess |-> <<>>, currentData |-> <<>>, i |-> 0, promises |-> <<>>, committed |-> 0,
   second |-> NoRun]

\* AnalysisResult unmounted: a later mount starts from useState(false)
Unmounted(b) == [b EXCEPT !.generatingSheets = FALSE]

NoMatrixFilter == [isNull |-> TRUE, s |-> 0, o |-> 0]
NoBarFilter == [isNull |-> TRUE, id |-> 0]
NoViewSheet == [isNull |-> TRUE]
InitialView ==
  [matrixFilter |-> NoMatrixFilter, barFilter |-> NoBarFilter,
   sortConfig |-> [key |-> "rpn", direction |-> "desc"], viewSheet |-> NoViewSheet]

InitStudy ==
  /\ contextText = ""
  /\ studyStore = NoDocument
  /\ saves = <<>>
  /\ currentStudyId = ""
  /\ justSaved = FALSE
  /\ clipboard = NoClipboard
  /\ view = InitialView
  /\ bulk = NoBulk

Init == InitProgram /\ undoLog = NoLog /\ reply = NoReply /\ InitStudy

\* the items of the data prop (data ? [...data] : [])
Items(d) == IF d.isNull THEN <<>> ELSE d.items

(***************************************************************************)
(* App.tsx 153-181: handleGenerate, up to its await and after it.  The     *)
(* results its closure holds is read after the await only when merging, so *)
(* gen.cap keeps it only then.                                             *)
(* AnalysisResult is mounted only while results is not null (App.tsx 373): *)
(* its state (editingId, editForm) is lost when results becomes null.      *)
(***************************************************************************)
handleGenerate ==
  /\ contextText # ""
  /\ ~gen.active
  /\ gen' = [active |-> TRUE, merging |-> isMerging,
             cap |-> IF isMerging THEN results ELSE NullResults]
  /\ IF ~isMerging
     THEN /\ results' = NullResults
          /\ history' = <<>>
          /\ edit' = NoEdit
          /\ view' = InitialView
          /\ bulk' = Unmounted(bulk)
     ELSE UNCHANGED <<results, history, edit, view, bulk>>
  /\ UNCHANGED <<isMerging, messages, regen, sheetJob, nextId>>

\* C37's mutant: a completed merge pushes the dataset it replaces
GenerateDonePushesSnapshot ==
  /\ gen.active
  /\ \E rawData \in RawOutputs :
       LET data == generateRCMAnalysis(rawData, nextId + 1)
       IN /\ results' = Rendered(IF gen.merging /\ ~gen.cap.isNull
                                 THEN ClearNew(gen.cap.items) \o data
                                 ELSE data)
          /\ nextId' = nextId + Len(rawData)
  /\ history' = IF gen.merging THEN HistoryAfterUpdate(results) ELSE history
  /\ gen' = NoGeneration
  /\ UNCHANGED <<isMerging, messages, edit, regen, sheetJob>>

GenerateDone ==
  /\ gen.active
  /\ \E rawData \in RawOutputs :
       LET data == generateRCMAnalysis(rawData, nextId + 1)
       IN /\ results' = Rendered(IF gen.merging /\ ~gen.cap.isNull
                                 THEN ClearNew(gen.cap.items) \o data
                                 ELSE data)
          /\ nextId' = nextId + Len(rawData)
  /\ gen' = NoGeneration
  /\ UNCHANGED <<history, isMerging, messages, edit, regen, sheetJob>>

GenerateFailed ==
  /\ gen.active
  /\ gen' = NoGeneration
  /\ UNCHANGED <<results, history, isMerging, messages, edit, regen, sheetJob, nextId>>

\* the merge checkbox, shown while results holds at least one record (App.tsx 370)
ToggleMerging ==
  /\ ~results.isNull /\ Len(results.items) > 0
  /\ isMerging' = ~isMerging
  /\ UNCHANGED <<results, history, gen, messages, edit, regen, sheetJob, nextId>>

(***************************************************************************)
(* AICopilot.tsx 649-802: a response's proposal arrives (handleSend after  *)
(* its await); applySingleAction; handleReset.                             *)
(***************************************************************************)
\* a proposal as parseAIResponse returns it: applied: false
Pending(p) == [type |-> p.type, item |-> p.item, applied |-> FALSE]

ReceiveProposal(p) ==
  /\ messages' = Append(messages, Pending(p))
  /\ UNCHANGED <<results, history, isMerging, gen, edit, regen, sheetJob, nextId>>

\* handleSend after its await: the response is parsed and shown
ReceiveResponse ==
  /\ ~reply.shown
  /\ LET parsed == parseAIResponse(reply.text)
     IN /\ messages' = messages \o parsed.proposals
        /\ reply' = [reply EXCEPT !.cleanText = parsed.cleanText, !.shown = TRUE]
  /\ UNCHANGED <<results, history, isMerging, gen, edit, regen, sheetJob, nextId>>

handleReset ==
  /\ messages # <<>>
  /\ messages' = <<>>
  /\ UNCHANGED <<results, history, isMerging, gen, edit, regen, sheetJob, nextId>>

applySingleAction(k) ==
  /\ ~messages[k].applied
  /\ handleResultsUpdate(results, ApplyProposal(Items(results), messages[k], nextId + 1))
  /\ nextId' = IF messages[k].type = "ADD" THEN nextId + 1 ELSE nextId
  /\ messages' = [messages EXCEPT ![k].applied = TRUE]
  /\ UNCHANGED <<isMerging, gen, edit, regen, sheetJob>>

(***************************************************************************)
(* AnalysisResult.tsx 167-266: delete, inline edit, sheet generation.      *)
(***************************************************************************)
handleDelete(i) ==
  /\ ~results.isNull
  /\ handleResultsUpdate(results,
       SelectSeq(results.items, LAMBDA r : r.id # results.items[i].id))
  /\ UNCHANGED <<isMerging, gen, messages, edit, regen, sheetJob, nextId>>

handleEdit(i) ==
  /\ ~results.isNull
  /\ edit' = [active |-> TRUE, id |-> results.items[i].id, form |-> results.items[i]]
  /\ UNCHANGED <<results, history, isMerging, gen, messages, regen, sheetJob, nextId>>

handleChange(field, value) ==
  /\ edit.active
  /\ edit' = [edit EXCEPT !.form = [edit.form EXCEPT ![field] = value]]
  /\ UNCHANGED <<results, history, isMerging, gen, messages, regen, sheetJob, nextId>>

handleCancel ==
  /\ edit.active
  /\ edit' = NoEdit
  /\ UNCHANGED <<results, history, isMerging, gen, messages, regen, sheetJob, nextId>>

\* handleSave up to its await; one regeneration is awaited at a time
handleSave ==
  LET idx == FindIndex(results.items, edit.id)
      original == results.items[idx]
      updatedForm == UpdatedForm(edit.form, original)
      newData == ReplaceById(results.items, edit.id, updatedForm)
  IN /\ edit.active
     /\ idx # 0
     /\ handleResultsUpdate(results, newData)
     /\ edit' = NoEdit
     /\ IF NeedsRegeneration(edit.form, original)
        THEN /\ ~regen.active
             /\ regen' = [active |-> TRUE, id |-> updatedForm.id,
                          newData |-> newData, cap |-> results]
        ELSE UNCHANGED regen
     /\ UNCHANGED <<isMerging, gen, messages, sheetJob, nextId>>

\* handleSave after its await: generateInspectionSheet resolved, onUpdate(finalData)
\* is the handleResultsUpdate of the render handleSave was created in
RegenerationDone ==
  /\ regen.active
  /\ \E sheet \in SheetOutputs :
       handleResultsUpdate(regen.cap, WithSheet(regen.newData, regen.id, sheet))
  /\ regen' = NoJob
  /\ UNCHANGED <<isMerging, gen, messages, edit, sheetJob, nextId>>

RegenerationFailed ==
  /\ regen.active
  /\ regen' = NoJob
  /\ UNCHANGED <<results, history, isMerging, gen, messages, edit, sheetJob, nextId>>

\* handleGenerateSingleSheet up to its await; the button is shown on a record without a sheet
handleGenerateSingleSheet(i) ==
  /\ ~results.isNull
  /\ ~sheetJob.active
  /\ ~results.items[i].inspectionSheet.present
  /\ sheetJob' = [NoJob EXCEPT !.active = TRUE, !.id = results.items[i].id, !.cap = results]
  /\ UNCHANGED <<results, history, isMerging, gen, messages, edit, regen, nextId>>

\* generateInspectionSheet resolved to sheet: the dataset's part of the continuation
SingleSheetArrived(sheet) ==
  /\ sheetJob.active
  /\ handleResultsUpdate(sheetJob.cap, WithSheet(sheetJob.cap.items, sheetJob.id, sheet))
  /\ sheetJob' = NoJob
  /\ UNCHANGED <<isMerging, gen, messages, edit, regen, nextId>>

SingleSheetDone == \E sheet \in SheetOutputs : SingleSheetArrived(sheet)

SingleSheetFailed ==
  /\ sheetJob.active
  /\ sheetJob' = NoJob
  /\ UNCHANGED <<results, history, isMerging, gen, messages, edit, regen, nextId>>

(***************************************************************************)
(* AnalysisResult.tsx 224-247: handleGenerateAllSheets.  bulk.promises     *)
(* holds, for every item of itemsToProcess, the state of the promise of    *)
(* its generateInspectionSheet call: "unissued", "pending", "fulfilled" or *)
(* "rejected".  bulk.i is the loop's i; bulk.committed counts the calls of *)
(* onUpdate.  The function runs on after AnalysisResult is unmounted.  A   *)
(* call of the function made while one is in flight is held in bulk.second *)
(* up to its first await.                                                  *)
(***************************************************************************)
BATCH_SIZE == 3

\* C26's mutant: the chunk is all that is left of itemsToProcess
BatchToTheEnd(itemsToProcess, i) == (i + 1)..Len(itemsToProcess)

\* itemsToProcess.slice(i, i + BATCH_SIZE), as positions of itemsToProcess
Batch(itemsToProcess, i) ==
  {p \in 1..Len(itemsToProcess) : i < p /\ p <= i + BATCH_SIZE}

\* batch.map(async (item) => ...): the calls of the chunk are issued
Issued(promises, batch) ==
  [p \in 1..Len(promises) |-> IF p \in batch THEN "pending" ELSE promises[p]]

\* C35's mutant: the button is disabled while a bulk generation is in flight
handleGenerateAllSheetsWhenNoneRuns ==
  LET itemsToProcess == SelectSeq(Items(results), LAMBDA item : ~item.inspectionSheet.present)
      promises == Issued([p \in 1..Len(itemsToProcess) |-> "unissued"],
                         Batch(itemsToProcess, 0))
  IN /\ ~results.isNull
     /\ ~bulk.generatingSheets
     /\ ~bulk.running
     /\ ~bulk.second.started
     /\ itemsToProcess # <<>>
     /\ bulk' = IF bulk.running
                THEN [bulk EXCEPT !.generatingSheets = TRUE,
                                  !.second = [started |-> TRUE, cap |-> results,
                                              itemsToProcess |-> itemsToProcess,
                                              promises |-> promises]]
                ELSE [running |-> TRUE, generatingSheets |-> TRUE, cap |-> results,
                      itemsToProcess |-> itemsToProcess, currentData |-> results.items,
                      i |-> 0, promises |-> promises, committed |-> 0, second |-> NoRun]
     /\ UNCHANGED <<prog, reply, study, clipboard, view>>

\* handleGenerateAllSheets up to its first await; the button is disabled while
\* generatingSheets
handleGenerateAllSheets ==
  LET itemsToProcess == SelectSeq(Items(results), LAMBDA item : ~item.inspectionSheet.present)
      promises == Issued([p \in 1..Len(itemsToProcess) |-> "unissued"],
                         Batch(itemsToProcess, 0))
  IN /\ ~results.isNull
     /\ ~bulk.generatingSheets
     /\ ~bulk.second.started
     /\ itemsToProcess # <<>>
     /\ bulk' = IF bulk.running
                THEN [bulk EXCEPT !.generatingSheets = TRUE,
                                  !.second = [started |-> TRUE, cap |-> results,
                                              itemsToProcess |-> itemsToProcess,
                                              promises |-> promises]]
                ELSE [running |-> TRUE, generatingSheets |-> TRUE, cap |-> results,
                      itemsToProcess |-> itemsToProcess, currentData |-> results.items,
                      i |-> 0, promises |-> promises, committed |-> 0, second |-> NoRun]
     /\ UNCHANGED <<prog, reply, study, clipboard, view>>

\* generateInspectionSheet(item) resolved: the sheet goes to the first record of
\* currentData with the item's id
SubRequestDone(p) ==
  /\ bulk.running
  /\ p \in 1..Len(bulk.promises)
  /\ bulk.promises[p] = "pending"
  /\ \E sheet \in SheetOutputs :
       LET index == FindIndex(bulk.currentData, bulk.itemsToProcess[p].id)
       IN bulk' = [bulk EXCEPT
                     !.promises[p] = "fulfilled",
                     !.currentData =
                        IF index # 0
                        THEN [bulk.currentData EXCEPT ![index].inspectionSheet = sheet]
                        ELSE bulk.currentData]
  /\ UNCHANGED <<prog, reply, study, clipboard, view>>

\* generateInspectionSheet(item) rejected: catch (e) { console.error(e) }
SubRequestFailed(p) ==
  /\ bulk.running
  /\ p \in 1..Len(bulk.promises)
  /\ bulk.promises[p] = "pending"
  /\ bulk' = [bulk EXCEPT !.promises[p] = "rejected"]
  /\ UNCHANGED <<prog, reply, study, clipboard, view>>

\* C27's mutant: a rejected promise of the chunk ends the function, as
\* Promise.all does of promises that reject
ChunkCommitUnlessRejected ==
  LET next == bulk.i + BATCH_SIZE
      rejected == \E p \in Batch(bulk.itemsToProcess, bulk.i) : bulk.promises[p] = "rejected"
  IN /\ bulk.running
     /\ \A p \in 1..Len(bulk.promises) : bulk.promises[p] # "pending"
     /\ IF rejected
        THEN /\ bulk' = [bulk EXCEPT !.running = FALSE]
             /\ UNCHANGED <<results, history>>
        ELSE /\ handleResultsUpdate(bulk.cap, bulk.currentData)
             /\ bulk' = IF next < Len(bulk.itemsToProcess)
                        THEN [bulk EXCEPT !.i = next, !.committed = @ + 1,
                                          !.promises = Issued(@, Batch(bulk.itemsToProcess, next))]
                        ELSE [bulk EXCEPT !.i = next, !.committed = @ + 1,
                                          !.running = FALSE, !.generatingSheets = FALSE]
     /\ UNCHANGED <<isMerging, gen, messages, edit, regen, sheetJob, nextId,
                    reply, study, clipboard, view>>

\* C33's mutant: the sheets generated so far are merged into the dataset as it
\* is at the commit
ChunkCommitIntoCurrent ==
  LET next == bulk.i + BATCH_SIZE
      sheetOf(r) == IF FindIndex(bulk.currentData, r.id) = 0 THEN r.inspectionSheet
                    ELSE bulk.currentData[FindIndex(bulk.currentData, r.id)].inspectionSheet
  IN /\ bulk.running
     /\ \A p \in 1..Len(bulk.promises) : bulk.promises[p] # "pending"
     /\ handleResultsUpdate(results,
          [i \in 1..Len(Items(results)) |->
             [results.items[i] EXCEPT !.inspectionSheet = sheetOf(results.items[i])]])
     /\ bulk' = IF next < Len(bulk.itemsToProcess)
                THEN [bulk EXCEPT !.i = next, !.committed = @ + 1,
                                  !.promises = Issued(@, Batch(bulk.itemsToProcess, next))]
                ELSE [bulk EXCEPT !.i = next, !.committed = @ + 1,
                                  !.running = FALSE, !.generatingSheets = FALSE]
     /\ UNCHANGED <<isMerging, gen, messages, edit, regen, sheetJob, nextId,
                    reply, study, clipboard, view>>

\* Promise.all resolved: onUpdate([...currentData]) through the handleResultsUpdate
\* of the render the function was created in, then the next chunk is issued or
\* setGeneratingSheets(false)
ChunkCommit ==
  LET next == bulk.i + BATCH_SIZE
  IN /\ bulk.running
     /\ \A p \in 1..Len(bulk.promises) : bulk.promises[p] # "pending"
     /\ handleResultsUpdate(bulk.cap, bulk.currentData)
     /\ bulk' = IF next < Len(bulk.itemsToProcess)
                THEN [bulk EXCEPT !.i = next, !.committed = @ + 1,
                                  !.promises = Issued(@, Batch(bulk.itemsToProcess, next))]
                ELSE [bulk EXCEPT !.i = next, !.committed = @ + 1,
                                  !.running = FALSE, !.generatingSheets = FALSE]
     /\ UNCHANGED <<isMerging, gen, messages, edit, regen, sheetJob, nextId,
                    reply, study, clipboard, view>>

(***************************************************************************)
(* App.tsx 280-285: handleUndo.                                            *)
(***************************************************************************)
\* C6's mutant: the restored snapshot stays in the history
handleUndoKeepsSnapshot ==
  IF Len(history) = 0 THEN UNCHANGED prog
  ELSE /\ results' = Rendered(Last(history))
       /\ UNCHANGED <<history, isMerging, gen, messages, edit, regen, sheetJob, nextId>>

handleUndo ==
  IF Len(history) = 0 THEN UNCHANGED prog
  ELSE /\ results' = Rendered(Last(history))
       /\ history' = Front(history)
       /\ UNCHANGED <<isMerging, gen, messages, edit, regen, sheetJob, nextId>>

(***************************************************************************)
(* App.tsx 260-271: handleNewStudy.                                        *)
(***************************************************************************)
handleNewStudy ==
  /\ results' = NullResults
  /\ history' = <<>>
  /\ contextText' = ""
  /\ currentStudyId' = ""
  /\ edit' = NoEdit
  /\ view' = InitialView
  /\ bulk' = Unmounted(bulk)
  /\ UNCHANGED <<isMerging, gen, messages, regen, sheetJob, nextId>>


(***************************************************************************)
(* AnalysisResult.tsx 312-409: handleCopy and handleClassicalCopy.  A text *)
(* is a sequence of characters: the tab, the newline, the double quote, or *)
(* a run of other characters held as one string.  A free-text field of a   *)
(* record is such a sequence where it is exported; a number is printed by  *)
(* ToString.  processedData is the view of the table.                      *)
(***************************************************************************)
Tab == "TAB"
Newline == "LF"
Quote == "QUOTE"

\* String(val || '') of a text field, of a number and of an enumerated string
TextCell(item, f) == IF Has(item, f) THEN item[f] ELSE <<>>
NumberCell(item, f) == IF TruthyNum(item, f) THEN <<ToString(item[f])>> ELSE <<>>
WordCell(item, f) == IF TruthyStr(item, f) THEN <<item[f]>> ELSE <<>>

\* str.replace(/"/g, '""')
RECURSIVE DoubleQuotes(_)
DoubleQuotes(str) ==
  IF str = <<>> THEN <<>>
  ELSE (IF Head(str) = Quote THEN <<Quote, Quote>> ELSE <<Head(str)>>) \o DoubleQuotes(Tail(str))

\* C20's mutant: wrapped, the quotes inside left single
EscapeCellSingleQuotes(str) ==
  IF \E i \in 1..Len(str) : str[i] \in {Tab, Newline, Quote}
  THEN <<Quote>> \o str \o <<Quote>>
  ELSE str

\* if (/[\t\n"]/.test(str)) return `"${str.replace(/"/g, '""')}"`; return str
EscapeCell(str) ==
  IF \E i \in 1..Len(str) : str[i] \in {Tab, Newline, Quote}
  THEN <<Quote>> \o DoubleQuotes(str) \o <<Quote>>
  ELSE str

\* cells.join(sep)
RECURSIVE Join(_, _)
Join(cells, sep) ==
  IF cells = <<>> THEN <<>>
  ELSE IF Len(cells) = 1 THEN Head(cells)
  ELSE Head(cells) \o <<sep>> \o Join(Tail(cells), sep)

\* row.map(val => ...).join("\t")
FinalRow(row) == Join([i \in 1..Len(row) |-> EscapeCell(row[i])], Tab)

RECURSIVE Concat(_)
Concat(seqs) == IF seqs = <<>> THEN <<>> ELSE Head(seqs) \o Concat(Tail(seqs))

Headers ==
  << <<"Component">>, <<"Function">>, <<"Functional Failure">>, <<"Failure Mode">>,
     <<"Effect">>, <<"Consequence Cat.">>, <<"ISO 14224 Code">>, <<"Criticality">>,
     <<"S">>, <<"O">>, <<"D">>, <<"RPN">>, <<"Proposed Task">>, <<"Interval">>,
     <<"Task Type">>, <<"Step #">>, <<"Action">>, <<"Method/Technique">>,
     <<"Acceptance Criteria">> >>

ClassicalHeaders ==
  << <<"Component">>, <<"Failure mode">>, <<"Proposed Task">>, <<"Frequency">>,
     <<"Type of task">>, <<"Step number">>, <<"Actions">> >>

HasSteps(item) == item.inspectionSheet.present /\ Len(item.inspectionSheet.steps) > 0

BaseRow(item) ==
  << TextCell(item, "component"), TextCell(item, "function"),
     TextCell(item, "functionalFailure"), TextCell(item, "failureMode"),
     TextCell(item, "failureEffect"), TextCell(item, "consequenceCategory"),
     TextCell(item, "iso14224Code"), WordCell(item, "criticality"),
     NumberCell(item, "severity"), NumberCell(item, "occurrence"),
     NumberCell(item, "detection"), NumberCell(item, "rpn"),
     TextCell(item, "maintenanceTask"), TextCell(item, "interval"),
     TextCell(item, "taskType") >>

StepRow(step) ==
  << NumberCell(step, "step"), TextCell(step, "description"),
     TextCell(step, "technique"), TextCell(step, "criteria") >>

\* C22's mutant: the record's fields on its first step row only
CopyRowsFieldsOnce(item) ==
  IF HasSteps(item)
  THEN [k \in 1..Len(item.inspectionSheet.steps) |->
          (IF k = 1 THEN BaseRow(item) ELSE [c \in 1..15 |-> <<>>])
            \o StepRow(item.inspectionSheet.steps[k])]
  ELSE << BaseRow(item) \o << <<>>, <<>>, <<>>, <<>> >> >>

\* the rows of cells handleCopy makes of one record, before they are escaped
CopyRows(item) ==
  IF HasSteps(item)
  THEN [k \in 1..Len(item.inspectionSheet.steps) |->
          BaseRow(item) \o StepRow(item.inspectionSheet.steps[k])]
  ELSE << BaseRow(item)
            \o << <<>>, TextCell(item.inspectionSheet, "checkPointDescription"),
                  WordCell(item.inspectionSheet, "type"),
                  TextCell(item.inspectionSheet, "criteriaLimits") >> >>

\* the rows handleClassicalCopy makes of record i: the component is shown
\* when it differs from the record's before, the record's columns on its
\* first step row only
ClassicalRows(items, i) ==
  LET item == items[i]
      componentToShow ==
        IF TextCell(item, "component") = (IF i = 1 THEN <<>> ELSE TextCell(items[i - 1], "component"))
        THEN <<>> ELSE TextCell(item, "component")
      baseInfo == << componentToShow, TextCell(item, "failureMode"),
                     TextCell(item, "maintenanceTask"), TextCell(item, "interval"),
                     TextCell(item, "taskType") >>
  IN IF HasSteps(item)
     THEN [k \in 1..Len(item.inspectionSheet.steps) |->
             (IF k = 1 THEN baseInfo ELSE << <<>>, <<>>, <<>>, <<>>, <<>> >>)
               \o << NumberCell(item.inspectionSheet.steps[k], "step"),
                     TextCell(item.inspectionSheet.steps[k], "description") >>]
     ELSE << baseInfo \o << <<>>, <<>> >> >>

\* [headers.join("\t"), ...rows].join("\n")
ExportText(headers, rows) ==
  Join(<<Join(headers, Tab)>> \o [r \in 1..Len(rows) |-> FinalRow(rows[r])], Newline)

\* localeCompare on the strings of the model
LocaleOrder ==
  << "Hidden", "Leak", "Operational", "Pump", "Safety", "Test Bearing", "UNC", "Valve", "Wear" >>
LocaleRank(str) == CHOOSE n \in 1..Len(LocaleOrder) : LocaleOrder[n] = str

\* C24's mutant: the direction applied to a missing value too
CompareMissingByDirection(a, b, sortConfig) ==
  LET key == sortConfig.key
      multiplier == IF sortConfig.direction = "asc" THEN 1 ELSE -1
  IN IF ~Has(a, key) /\ ~Has(b, key) THEN 0
     ELSE IF Has(a, key) /\ Has(b, key) /\ a[key] = b[key] THEN 0
     ELSE IF ~Has(a, key) THEN multiplier
     ELSE IF ~Has(b, key) THEN -multiplier
     ELSE IF key = "rpn" THEN (a[key] - b[key]) * multiplier
     ELSE (LocaleRank(a[key]) - LocaleRank(b[key])) * multiplier

\* the comparator of result.sort: negative, zero or positive
Compare(a, b, sortConfig) ==
  LET key == sortConfig.key
      multiplier == IF sortConfig.direction = "asc" THEN 1 ELSE -1
  IN IF ~Has(a, key) /\ ~Has(b, key) THEN 0
     ELSE IF Has(a, key) /\ Has(b, key) /\ a[key] = b[key] THEN 0
     ELSE IF ~Has(a, key) THEN 1
     ELSE IF ~Has(b, key) THEN -1
     ELSE IF key = "rpn" THEN (a[key] - b[key]) * multiplier
     ELSE (LocaleRank(a[key]) - LocaleRank(b[key])) * multiplier

\* Array.prototype.sort is stable: s[i] goes after the records the comparator
\* puts before it and after the records it ties with that stand before it
PlaceInView(s, i, sortConfig) ==
  1 + Cardinality({j \in 1..Len(s) : Compare(s[j], s[i], sortConfig) < 0})
    + Cardinality({j \in 1..(i - 1) : Compare(s[j], s[i], sortConfig) = 0})

SortedView(s, sortConfig) ==
  [k \in 1..Len(s) |-> s[CHOOSE i \in 1..Len(s) : PlaceInView(s, i, sortConfig) = k]]

\* the filters of processedData; no search text is typed
PassesFilters(item, v) ==
  /\ v.matrixFilter.isNull
       \/ /\ (IF TruthyNum(item, "severity") THEN item.severity ELSE 0) = v.matrixFilter.s
          /\ (IF TruthyNum(item, "occurrence") THEN item.occurrence ELSE 0) = v.matrixFilter.o
  /\ (v.barFilter.isNull \/ v.barFilter.id = 0) \/ item.id = v.barFilter.id

ProjectedView(items, v) ==
  SortedView(SelectSeq(items, LAMBDA item : PassesFilters(item, v)), v.sortConfig)

processedData == ProjectedView(Items(results), view)

\* AnalysisResult.tsx 151-157, 411-432: the view's handlers
requestSort(key) ==
  /\ ~results.isNull
  /\ view' = [view EXCEPT !.sortConfig =
                [key |-> key,
                 direction |-> IF view.sortConfig.key = key /\ view.sortConfig.direction = "asc"
                               THEN "desc" ELSE "asc"]]
  /\ UNCHANGED <<prog, reply, study, clipboard, bulk>>

\* C23's mutant: a click always selects the cell
MatrixFilterSelected(matrixFilter, s, o) == [isNull |-> FALSE, s |-> s, o |-> o]

\* what handleMatrixClick passes to setMatrixFilter
MatrixFilterAfterClick(matrixFilter, s, o) ==
  IF ~matrixFilter.isNull /\ matrixFilter.s = s /\ matrixFilter.o = o
  THEN NoMatrixFilter
  ELSE [isNull |-> FALSE, s |-> s, o |-> o]

\* what handleBarClick passes to setBarFilter
BarFilterAfterClick(barFilter, id) ==
  IF ~barFilter.isNull /\ barFilter.id = id
  THEN NoBarFilter
  ELSE [isNull |-> FALSE, id |-> id]

handleMatrixClick(s, o) ==
  /\ ~results.isNull
  /\ view' = [view EXCEPT !.matrixFilter = MatrixFilterAfterClick(view.matrixFilter, s, o)]
  /\ UNCHANGED <<prog, reply, study, clipboard, bulk>>

handleBarClick(id) ==
  /\ ~results.isNull
  /\ view' = [view EXCEPT !.barFilter = BarFilterAfterClick(view.barFilter, id)]
  /\ UNCHANGED <<prog, reply, study, clipboard, bulk>>

clearAllFilters ==
  /\ ~results.isNull
  /\ view' = InitialView
  /\ UNCHANGED <<prog, reply, study, clipboard, bulk>>

handleCopy ==
  /\ ~results.isNull
  /\ clipboard' =
       [format |-> "full",
        text |-> ExportText(Headers,
                   Concat([i \in 1..Len(processedData) |-> CopyRows(processedData[i])]))]
  /\ UNCHANGED <<prog, reply, study, view, bulk>>

handleClassicalCopy ==
  /\ ~results.isNull
  /\ clipboard' =
       [format |-> "classical",
        text |-> ExportText(ClassicalHeaders,
                   Concat([i \in 1..Len(processedData) |-> ClassicalRows(processedData, i)]))]
  /\ UNCHANGED <<prog, reply, study, view, bulk>>

(***************************************************************************)
(* App.tsx 96-105, 190-232: the auto-save timer and handleSaveStudy, up to *)
(* its first await and after its awaits.  The refs it reads hold the       *)
(* values of the last render (App.tsx 61-75).  No file is uploaded:        *)
(* fileData stays null.  The study's id, name and timestamp are left out.  *)
(***************************************************************************)
\* the texts typed into the context field
TypedContext == "pump station"
ContextTexts == {"", " ", TypedContext}

\* contextText.trim()
TrimmedContext(text) == IF text = " " THEN "" ELSE text

\* the context field's onChange
setContextText(text) ==
  /\ text # contextText
  /\ contextText' = text
  /\ UNCHANGED <<prog, reply, studyStore, saves, currentStudyId, justSaved, clipboard, view, bulk>>

\* C16's mutant: the items as they are
SavedItemsAsHeld(currentResults) == Items(currentResults)

\* items: (currentResults || []).map(item => ({ ...item, isNew: false }))
SavedItems(currentResults) == ClearNew(Items(currentResults))

\* `study-${Date.now()}`: the ids a study without one is saved under, by the
\* time of the save
StudyIds == {"study-now", "study-later"}
NewStudyId == "study-now"

\* handleSaveStudy up to its first await: newStudy is handed to saveStudyToDB
handleSaveStudy(isAutoSave, now) ==
  /\ ~(results.isNull /\ contextText = "")
  /\ studyStore' = [isEmpty |-> FALSE, items |-> SavedItems(results), auto |-> isAutoSave]
  /\ saves' = Append(saves, [isAutoSave |-> isAutoSave, currentId |-> currentStudyId,
                             idToSave |-> IF currentStudyId # "" THEN currentStudyId
                                          ELSE now])
  /\ UNCHANGED <<prog, reply, contextText, currentStudyId, justSaved, clipboard, view, bulk>>

\* C31's mutant: the callback leaves the save out while sheets are generated
AutoSaveWhenIdle(now) ==
  /\ \/ ~results.isNull /\ Len(results.items) > 0
     \/ TrimmedContext(contextText) # ""
  /\ ~bulk.generatingSheets
  /\ handleSaveStudy(TRUE, now)

\* the interval's callback
AutoSave(now) ==
  /\ \/ ~results.isNull /\ Len(results.items) > 0
     \/ TrimmedContext(contextText) # ""
  /\ handleSaveStudy(TRUE, now)

\* saveStudyToDB and getAllStudies resolve: the list of studies is refreshed
\* and the button turns green; results is not set
SaveDone(k) ==
  /\ saves' = SubSeq(saves, 1, k - 1) \o SubSeq(saves, k + 1, Len(saves))
  /\ currentStudyId' = (IF saves[k].currentId = "" THEN saves[k].idToSave ELSE currentStudyId)
  /\ justSaved' = TRUE
  /\ UNCHANGED <<prog, reply, contextText, studyStore, clipboard, view, bulk>>

\* setTimeout(() => setJustSaved(false), 2000)
JustSavedExpires ==
  /\ justSaved
  /\ justSaved' = FALSE
  /\ UNCHANGED <<prog, reply, contextText, studyStore, saves, currentStudyId, clipboard, view, bulk>>

\* the catch taken for a save that stored the study: the id is set all the same
SaveFailedAfterStoring(k) ==
  /\ saves' = SubSeq(saves, 1, k - 1) \o SubSeq(saves, k + 1, Len(saves))
  /\ currentStudyId' = (IF saves[k].currentId = "" THEN saves[k].idToSave ELSE currentStudyId)
  /\ UNCHANGED <<prog, reply, contextText, studyStore, justSaved, clipboard, view, bulk>>

\* one of them rejects: the catch logs, and sets error when not an auto-save
SaveFailed(k) ==
  /\ saves' = SubSeq(saves, 1, k - 1) \o SubSeq(saves, k + 1, Len(saves))
  /\ UNCHANGED <<prog, reply, contextText, studyStore, currentStudyId, justSaved, clipboard, view, bulk>>

(***************************************************************************)
(* Spec: the copilot and the history.  The context field, generation and  *)
(* merge generation, the chat's proposals, applySingleAction, delete, undo *)
(* and new study, interleaved.                                             *)
(***************************************************************************)
\* the bounds of a behaviour, on the state a step leads to
Bounded ==
  /\ nextId' <= MaxIds
  /\ Len(results'.items) <= MaxRecords
  /\ Len(history') <= MaxDepth
  /\ Len(messages') <= MaxProposals
  /\ UNCHANGED <<undoLog, io>>

Next ==
  \/ handleGenerate /\ Bounded
  \/ GenerateDone /\ Bounded
  \/ GenerateFailed /\ Bounded
  \/ ToggleMerging /\ Bounded
  \/ (\E p \in ChatProposals : ReceiveProposal(p)) /\ Bounded
  \/ handleReset /\ Bounded
  \/ (\E k \in 1..Len(messages) : applySingleAction(k)) /\ Bounded
  \/ (\E i \in 1..Len(results.items) : handleDelete(i)) /\ Bounded
  \/ handleUndo /\ Bounded
  \/ handleNewStudy /\ UNCHANGED <<undoLog, reply, studyStore, saves, justSaved, clipboard, view, bulk>>
  \/ setContextText(TypedContext) /\ UNCHANGED undoLog

Spec == Init /\ [][Next]_vars

(***************************************************************************)
(* SpecEdit: the table.  Generation, inline edit and save, sheet           *)
(* generation and regeneration, delete and undo, interleaved.              *)
(***************************************************************************)
\* requests awaited in the state a step leads to
Jobs ==
  (IF gen'.active THEN 1 ELSE 0) + (IF regen'.active THEN 1 ELSE 0)
    + (IF sheetJob'.active THEN 1 ELSE 0)

BoundedEdit ==
  /\ nextId' <= MaxIds
  /\ Len(results'.items) <= MaxEditRecords
  /\ Len(history') <= MaxEditDepth
  /\ Jobs <= MaxJobs
  /\ UNCHANGED <<undoLog, io>>

NextEdit ==
  \/ handleGenerate /\ BoundedEdit
  \/ GenerateDone /\ BoundedEdit
  \/ GenerateFailed /\ BoundedEdit
  \/ (\E i \in 1..Len(results.items) : handleEdit(i)) /\ BoundedEdit
  \/ (\E c \in FormChanges : handleChange(c[1], c[2])) /\ BoundedEdit
  \/ handleCancel /\ BoundedEdit
  \/ handleSave /\ BoundedEdit
  \/ RegenerationDone /\ BoundedEdit
  \/ RegenerationFailed /\ BoundedEdit
  \/ (\E i \in 1..Len(results.items) : handleGenerateSingleSheet(i)) /\ BoundedEdit
  \/ SingleSheetDone /\ BoundedEdit
  \/ SingleSheetFailed /\ BoundedEdit
  \/ (\E i \in 1..Len(results.items) : handleDelete(i)) /\ BoundedEdit
  \/ handleUndo /\ BoundedEdit
  \/ setContextText(TypedContext) /\ UNCHANGED undoLog

SpecEdit == Init /\ [][NextEdit]_vars

(***************************************************************************)
(* SpecApply: one proposal, received twice, applied to a generated         *)
(* dataset.  The initial states are the states Spec reaches by a           *)
(* generation that returned rawData followed by two responses carrying p,  *)
(* for every rawData of RawArrays and every p of ChatProposals.            *)
(***************************************************************************)
InitApply ==
  \E rawData \in RawArrays, p \in ChatProposals :
    /\ results = Rendered(generateRCMAnalysis(rawData, 1))
    /\ nextId = Len(rawData)
    /\ messages = <<Pending(p), Pending(p)>>
    /\ history = <<>>
    /\ isMerging = FALSE
    /\ gen = NoGeneration
    /\ edit = NoEdit
    /\ regen = NoJob
    /\ sheetJob = NoJob
    /\ undoLog = NoLog
    /\ reply = NoReply
    /\ contextText = TypedContext
    /\ studyStore = NoDocument
    /\ saves = <<>>
    /\ currentStudyId = ""
    /\ justSaved = FALSE
    /\ clipboard = NoClipboard
    /\ view = InitialView
    /\ bulk = NoBulk

NextApply ==
  \/ (\E k \in 1..Len(messages) : applySingleAction(k)) /\ UNCHANGED <<undoLog, io>>
  \/ handleUndo /\ UNCHANGED <<undoLog, io>>

SpecApply == InitApply /\ [][NextApply]_vars

(***************************************************************************)
(* SpecUndo: a dataset is generated, the same ADD proposal is received and *)
(* applied up to MaxMutations times, then undo is pressed until one press  *)
(* more than there were mutations.  undoLog.trail is the dataset after the *)
(* generation and after each mutation, undoLog.undos the presses of undo.  *)
(***************************************************************************)
UndoProposal ==
  [type |-> "ADD", item |-> [component |-> "Test Bearing",
                             severity |-> 9, occurrence |-> 4, detection |-> 7]]

AllApplied == \A k \in 1..Len(messages) : messages[k].applied

Mutations == Len(undoLog.trail) - 1

NextUndo ==
  \/ setContextText(TypedContext) /\ UNCHANGED undoLog
  \/ undoLog.trail = <<>> /\ handleGenerate /\ UNCHANGED <<undoLog, io>>
  \/ GenerateDone /\ undoLog' = [trail |-> <<results'.items>>, undos |-> 0] /\ UNCHANGED io
  \/ /\ undoLog.trail # <<>> /\ undoLog.undos = 0 /\ AllApplied
     /\ Mutations < MaxMutations
     /\ ReceiveProposal(UndoProposal)
     /\ UNCHANGED <<undoLog, io>>
  \/ /\ ~AllApplied
     /\ applySingleAction(Len(messages))
     /\ undoLog' = [undoLog EXCEPT !.trail = Append(@, results'.items)]
     /\ UNCHANGED io
  \/ /\ undoLog.trail # <<>> /\ AllApplied
     /\ undoLog.undos <= Mutations
     /\ handleUndo
     /\ undoLog' = [undoLog EXCEPT !.undos = @ + 1]
     /\ UNCHANGED io

SpecUndo == Init /\ [][NextUndo]_vars

(***************************************************************************)
(* SpecParse: the copilot's response arrives in a fresh session, for every *)
(* text of Texts, and handleSend parses and shows it.                      *)
(***************************************************************************)
InitParse ==
  /\ InitProgram
  /\ undoLog = NoLog
  /\ InitStudy
  /\ \E text \in Texts : reply = [text |-> text, cleanText |-> <<>>, shown |-> FALSE]

NextParse == ReceiveResponse /\ UNCHANGED <<undoLog, study, clipboard, view, bulk>>

SpecParse == InitParse /\ [][NextParse]_vars

(***************************************************************************)
(* SpecRegenerate: generation while a sheet request is awaited.            *)
(* Generation and merge generation, single-sheet generation and undo,      *)
(* interleaved; the request of handleGenerateSingleSheet outlives the      *)
(* table it was started from.                                              *)
(***************************************************************************)
BoundedRegenerate ==
  /\ nextId' <= MaxIds
  /\ Len(results'.items) <= MaxRecords
  /\ Len(history') <= MaxDepth
  /\ UNCHANGED <<undoLog, io>>

NextRegenerate ==
  \/ setContextText(TypedContext) /\ UNCHANGED undoLog
  \/ handleGenerate /\ BoundedRegenerate
  \/ GenerateDone /\ BoundedRegenerate
  \/ GenerateFailed /\ BoundedRegenerate
  \/ ToggleMerging /\ BoundedRegenerate
  \/ (\E i \in 1..Len(results.items) : handleGenerateSingleSheet(i)) /\ BoundedRegenerate
  \/ SingleSheetDone /\ BoundedRegenerate
  \/ SingleSheetFailed /\ BoundedRegenerate
  \/ handleUndo /\ BoundedRegenerate

SpecRegenerate == Init /\ [][NextRegenerate]_vars

\* the texts of a free-text field: at most MaxCellLen characters
Chars == {"a", Tab, Newline, Quote}
FieldTexts == UNION { [1..n -> Chars] : n \in 0..MaxCellLen }

\* the sheets of the exported records: none, one step, two steps, and a
\* sheet of the legacy shape (no steps)
ExportSheets ==
  { NoSheet,
    [present |-> TRUE, steps |-> << [step |-> 1, description |-> <<"a", Tab>>] >>],
    [present |-> TRUE,
     steps |-> << [step |-> 1, description |-> <<Quote>>, technique |-> <<"a">>],
                  [step |-> 2, description |-> <<Newline>>, criteria |-> <<Tab, Quote>>] >>],
    [present |-> TRUE, steps |-> <<>>, checkPointDescription |-> <<Newline, "a">>,
     type |-> "Qualitative"] }

ExportItem(id, component, failureMode, sheet) ==
  [id |-> id, component |-> component, failureMode |-> failureMode,
   criticality |-> "High", severity |-> 9, occurrence |-> 4, detection |-> 7,
   rpn |-> 252, isNew |-> FALSE, inspectionSheet |-> sheet]

ExportComponents == { <<>>, <<"a">>, <<Quote, Newline>>, <<"a", Quote, Quote, Tab>> }

\* SpecExport: one record of every failureMode, component and sheet, and
\* two records of one component, the second of a lower rpn
ExportDatasets ==
  { <<ExportItem(1, c, f, NoSheet)>> : c \in ExportComponents, f \in FieldTexts }
    \cup { <<ExportItem(1, c, <<"a">>, sheet)>> :
             c \in ExportComponents, sheet \in ExportSheets }
    \cup { <<ExportItem(1, c, <<Tab>>, NoSheet),
             [ExportItem(2, c, <<Quote>>, sheet) EXCEPT !.severity = 2, !.rpn = 56]>> :
             c \in ExportComponents, sheet \in ExportSheets }

(***************************************************************************)
(* SpecExport: the two copy buttons on a table that shows a dataset of     *)
(* ExportDatasets, sorted by rpn either way and isolated to a chart bar or *)
(* not.                                                                    *)
(***************************************************************************)
InitExport ==
  /\ \E items \in ExportDatasets : results = Rendered(items)
  /\ nextId = Len(results.items)
  /\ history = <<>>
  /\ isMerging = FALSE
  /\ gen = NoGeneration
  /\ messages = <<>>
  /\ edit = NoEdit
  /\ regen = NoJob
  /\ sheetJob = NoJob
  /\ undoLog = NoLog
  /\ reply = NoReply
  /\ contextText = TypedContext
  /\ studyStore = NoDocument
  /\ saves = <<>>
  /\ currentStudyId = ""
  /\ justSaved = FALSE
  /\ clipboard = NoClipboard
  /\ view = InitialView
  /\ bulk = NoBulk

NextExport ==
  \/ handleCopy /\ UNCHANGED undoLog
  \/ handleClassicalCopy /\ UNCHANGED undoLog
  \/ requestSort("rpn") /\ UNCHANGED undoLog
  \/ (\E i \in 1..Len(results.items) : handleBarClick(results.items[i].id)) /\ UNCHANGED undoLog

SpecExport == InitExport /\ [][NextExport]_vars

(***************************************************************************)
(* SpecView: the table's view of a generated dataset: the sort headers,    *)
(* the risk-matrix cells, the bars of the top-risks chart and Clear All    *)
(* Filters.                                                                *)
(***************************************************************************)
\* items of the generation service, with and without the optional sort keys
ViewRawItems ==
  { [component |-> "Pump", criticality |-> "High", consequenceCategory |-> "Safety",
     iso14224Code |-> "UNC", failureMode |-> "Wear",
     severity |-> 9, occurrence |-> 4, detection |-> 7],
    [component |-> "Valve", criticality |-> "Low", failureMode |-> "Leak",
     severity |-> 2, occurrence |-> 4, detection |-> 7],
    [component |-> "Pump", criticality |-> "High", consequenceCategory |-> "Operational",
     iso14224Code |-> "UNC", severity |-> 9, occurrence |-> 4, detection |-> 1],
    [component |-> "Test Bearing", criticality |-> "Low", consequenceCategory |-> "Hidden",
     failureMode |-> "Wear", severity |-> 2, occurrence |-> 4, detection |-> 7] }

ViewRawArrays == UNION { [1..n -> ViewRawItems] : n \in 0..MaxViewRecords }

\* the headers with a sort button, the cells clicked and the bars the chart shows
SortKeys == {"component", "consequenceCategory", "iso14224Code", "failureMode", "rpn"}
ViewCells == { <<9, 4>>, <<2, 4>>, <<1, 1>> }
ChartBars == 5

InitView ==
  /\ \E rawData \in ViewRawArrays : results = Rendered(generateRCMAnalysis(rawData, 1))
  /\ nextId = Len(results.items)
  /\ history = <<>>
  /\ isMerging = FALSE
  /\ gen = NoGeneration
  /\ messages = <<>>
  /\ edit = NoEdit
  /\ regen = NoJob
  /\ sheetJob = NoJob
  /\ undoLog = NoLog
  /\ reply = NoReply
  /\ contextText = TypedContext
  /\ studyStore = NoDocument
  /\ saves = <<>>
  /\ currentStudyId = ""
  /\ justSaved = FALSE
  /\ clipboard = NoClipboard
  /\ view = InitialView
  /\ bulk = NoBulk

NextView ==
  \/ (\E key \in SortKeys : requestSort(key)) /\ UNCHANGED undoLog
  \/ (\E cell \in ViewCells : handleMatrixClick(cell[1], cell[2])) /\ UNCHANGED undoLog
  \/ (\E i \in 1..ChartBars : i <= Len(results.items) /\ handleBarClick(results.items[i].id))
       /\ UNCHANGED undoLog
  \/ clearAllFilters /\ UNCHANGED undoLog

SpecView == InitView /\ [][NextView]_vars

(***************************************************************************)
(* SpecBulk: one bulk sheet generation over a generated dataset whose      *)
(* first record may have its sheet already, while the user deletes         *)
(* records, undoes, applies the copilot's proposal and starts a new study. *)
(***************************************************************************)
\* arrays of Pump items, the first item a Pump or a Test Bearing
BulkRawArrays ==
  { [k \in 1..n |-> IF k = 1 THEN first ELSE RawPump] :
      n \in 1..MaxBulkRecords, first \in {RawPump, RawBearing} }

\* the proposal the chat holds: an update of the Pump records that carries an empty id
BulkProposal == [type |-> "UPDATE", item |-> [id |-> 0, component |-> "Pump"]]

BulkInit(arrays, sheets, proposals) ==
  /\ \E rawData \in arrays : \E sheet \in sheets :
       LET data == Rendered(generateRCMAnalysis(rawData, 1))
       IN results = Rendered(WithSheet(data.items, data.items[1].id, sheet))
  /\ nextId = Len(results.items)
  /\ history = <<>>
  /\ isMerging = FALSE
  /\ gen = NoGeneration
  /\ messages = proposals
  /\ edit = NoEdit
  /\ regen = NoJob
  /\ sheetJob = NoJob
  /\ undoLog = NoLog
  /\ reply = NoReply
  /\ contextText = TypedContext
  /\ studyStore = NoDocument
  /\ saves = <<>>
  /\ currentStudyId = ""
  /\ justSaved = FALSE
  /\ clipboard = NoClipboard
  /\ view = InitialView
  /\ bulk = NoBulk

InitBulk == BulkInit(BulkRawArrays, SheetOutputs \cup {NoSheet}, <<Pending(BulkProposal)>>)

\* the user's changes of the dataset are bounded; the steps of the bulk generation are not
UserChange == Len(history) < MaxBulkDepth /\ UNCHANGED <<undoLog, io>>

NextBulk ==
  \/ bulk = NoBulk /\ handleGenerateAllSheets /\ UNCHANGED undoLog
  \/ (\E p \in 1..Len(bulk.promises) : SubRequestDone(p)) /\ UNCHANGED undoLog
  \/ (\E p \in 1..Len(bulk.promises) : SubRequestFailed(p)) /\ UNCHANGED undoLog
  \/ ChunkCommit /\ UNCHANGED undoLog
  \/ Len(Items(results)) > 0 /\ handleDelete(1) /\ UserChange
  \/ (\E k \in 1..Len(messages) : applySingleAction(k)) /\ UserChange
  \/ Len(history) > 0 /\ handleUndo /\ UNCHANGED <<undoLog, io>>
  \/ ~results.isNull /\ handleNewStudy
       /\ UNCHANGED <<undoLog, reply, studyStore, saves, justSaved, clipboard>>

SpecBulk == InitBulk /\ [][NextBulk]_vars

(***************************************************************************)
(* SpecBulkFair: one bulk sheet generation over a dataset of Pump records  *)
(* without sheets, while the user deletes records, undoes, saves and       *)
(* starts a new study.  Every promise settles and Promise.all resumes the  *)
(* function: the steps of the bulk generation are taken when they stay     *)
(* possible.                                                               *)
(***************************************************************************)
PumpArrays == { [k \in 1..n |-> RawPump] : n \in 1..MaxBulkRecords }

InitBulkFair == BulkInit(PumpArrays, {NoSheet}, <<>>)

Settle == \E p \in 1..Len(bulk.promises) : SubRequestDone(p) \/ SubRequestFailed(p)

\* a step of the user: undoLog.undos counts them, up to MaxBulkSteps
UserStep ==
  /\ undoLog.undos < MaxBulkSteps
  /\ undoLog' = [undoLog EXCEPT !.undos = @ + 1]

NextBulkFair ==
  \/ bulk = NoBulk /\ handleGenerateAllSheets /\ UNCHANGED undoLog
  \/ Settle /\ UNCHANGED undoLog
  \/ ChunkCommit /\ UNCHANGED undoLog
  \/ Len(Items(results)) > 0 /\ handleDelete(1) /\ UserStep /\ UNCHANGED io
  \/ Len(history) > 0 /\ handleUndo /\ UserStep /\ UNCHANGED io
  \/ saves = <<>> /\ handleSaveStudy(FALSE, NewStudyId) /\ UserStep
  \/ saves # <<>> /\ SaveDone(1) /\ UNCHANGED undoLog
  \/ saves # <<>> /\ SaveFailed(1) /\ UNCHANGED undoLog
  \/ ~results.isNull /\ handleNewStudy /\ UserStep
       /\ UNCHANGED <<reply, studyStore, saves, justSaved, clipboard>>

SpecBulkFair ==
  /\ InitBulkFair
  /\ [][NextBulkFair]_vars
  /\ WF_vars(Settle /\ UNCHANGED undoLog)
  /\ WF_vars(ChunkCommit /\ UNCHANGED undoLog)

(***************************************************************************)
(* SpecSave: the Study Store.  Generation and merge generation, the        *)
(* context field, explicit saves and auto-saves and new study,             *)
(* interleaved.                                                            *)
(***************************************************************************)
BoundedSave ==
  /\ nextId' <= MaxIds
  /\ Len(results'.items) <= MaxRecords
  /\ Len(saves') <= MaxSaves
  /\ UNCHANGED undoLog

NextSave ==
  \/ handleGenerate /\ UNCHANGED io /\ BoundedSave
  \/ GenerateDone /\ UNCHANGED io /\ BoundedSave
  \/ ToggleMerging /\ UNCHANGED io /\ BoundedSave
  \/ (\E text \in ContextTexts : setContextText(text)) /\ BoundedSave
  \/ handleSaveStudy(FALSE, NewStudyId) /\ BoundedSave
  \/ AutoSave(NewStudyId) /\ BoundedSave
  \/ (\E k \in 1..Len(saves) : SaveDone(k)) /\ BoundedSave
  \/ (\E k \in 1..Len(saves) : SaveFailed(k)) /\ BoundedSave
  \/ JustSavedExpires /\ BoundedSave
  \/ handleNewStudy /\ UNCHANGED <<reply, studyStore, saves, justSaved, clipboard, view, bulk>> /\ BoundedSave

SpecSave == Init /\ [][NextSave]_vars

(***************************************************************************)
(* SpecSheet: the inspection sheet of a record.  AnalysisResult.tsx        *)
(* 249-298: a sheet is generated and shown, steps are added to the shown   *)
(* sheet and deleted from it, the sheet is closed and opened again, and    *)
(* the changes are undone.  view.viewSheet is the record the sheet modal   *)
(* shows; only the handlers of the modal read it, and the specifications   *)
(* above take none of them.                                                *)
(***************************************************************************)
ViewSheet(item) == [isNull |-> FALSE, item |-> item]

\* what the service may answer: inspectionSchema asks for an integer in
\* every step and says nothing of its value
ServiceSheets ==
  SheetOutputs \cup { [present |-> TRUE, steps |-> <<2, 1>>],
                      [present |-> TRUE, steps |-> <<1, 3>>] }

\* newData.find(d => d.id === item.id)
FindById(items, id) == items[FindIndex(items, id)]

\* handleGenerateSingleSheet after its await: onUpdate(newData), then the new
\* record is shown
SingleSheetShown(sheet) ==
  /\ SingleSheetArrived(sheet)
  /\ LET newData == WithSheet(sheetJob.cap.items, sheetJob.id, sheet)
     IN view' = (IF FindIndex(newData, sheetJob.id) = 0 THEN view
                 ELSE [view EXCEPT !.viewSheet = ViewSheet(FindById(newData, sheetJob.id))])

\* the sheet button of a record that has a sheet: setViewSheet({ item })
setViewSheet(i) ==
  /\ ~results.isNull
  /\ view.viewSheet.isNull
  /\ results.items[i].inspectionSheet.present
  /\ view' = [view EXCEPT !.viewSheet = ViewSheet(results.items[i])]
  /\ UNCHANGED prog

\* Close Procedure: setViewSheet(null)
closeSheet ==
  /\ ~view.viewSheet.isNull
  /\ view' = [view EXCEPT !.viewSheet = NoViewSheet]
  /\ UNCHANGED prog

\* data.map(d => d.id === updatedItem.id ? updatedItem : d); onUpdate(newData)
updateItemInMainData(updatedItem) ==
  handleResultsUpdate(results,
    [i \in 1..Len(results.items) |->
       IF results.items[i].id = updatedItem.id THEN updatedItem ELSE results.items[i]])

\* steps.filter((_, i) => i !== idx)
WithoutStep(steps, idx) ==
  [k \in 1..(Len(steps) - 1) |-> IF k < idx THEN steps[k] ELSE steps[k + 1]]

\* .map((s, i) => ({ ...s, step: i + 1 }))
Renumbered(steps) == [k \in 1..Len(steps) |-> k]

StepsAfterDelete(steps, idx) == Renumbered(WithoutStep(steps, idx))

\* step: (sheet.steps?.length || 0) + 1, appended
StepsAfterAdd(steps) == Append(steps, Len(steps) + 1)

WithSteps(item, steps) ==
  [item EXCEPT !.inspectionSheet = [@ EXCEPT !.steps = steps]]

handleDeleteStep(idx) ==
  /\ ~view.viewSheet.isNull
  /\ view.viewSheet.item.inspectionSheet.present
  /\ idx \in 1..Len(view.viewSheet.item.inspectionSheet.steps)
  /\ LET item == view.viewSheet.item
         updatedItem == WithSteps(item, StepsAfterDelete(item.inspectionSheet.steps, idx))
     IN /\ view' = [view EXCEPT !.viewSheet = ViewSheet(updatedItem)]
        /\ updateItemInMainData(updatedItem)
  /\ UNCHANGED <<isMerging, gen, messages, edit, regen, sheetJob, nextId>>

\* the modal, and its Add Step button, is rendered for a record with a sheet
handleAddStep ==
  /\ ~view.viewSheet.isNull
  /\ view.viewSheet.item.inspectionSheet.present
  /\ Len(view.viewSheet.item.inspectionSheet.steps) < MaxSteps
  /\ LET item == view.viewSheet.item
         updatedItem == WithSteps(item, StepsAfterAdd(item.inspectionSheet.steps))
     IN /\ view' = [view EXCEPT !.viewSheet = ViewSheet(updatedItem)]
        /\ updateItemInMainData(updatedItem)
  /\ UNCHANGED <<isMerging, gen, messages, edit, regen, sheetJob, nextId>>

\* C38's mutant: the view is set to the record of the restored dataset
handleInternalUndoRefreshes ==
  /\ Len(history) > 0
  /\ handleUndo
  /\ view' = (IF view.viewSheet.isNull
                 \/ FindIndex(results'.items, view.viewSheet.item.id) = 0
              THEN view
              ELSE [view EXCEPT
                      !.viewSheet = ViewSheet(FindById(results'.items, view.viewSheet.item.id))])

\* onUndo(), then the timer's callback: it reads the data of the render the
\* button was clicked in
handleInternalUndo ==
  /\ Len(history) > 0
  /\ handleUndo
  /\ view' = (IF view.viewSheet.isNull
                 \/ FindIndex(results.items, view.viewSheet.item.id) = 0
              THEN view
              ELSE [view EXCEPT
                      !.viewSheet = ViewSheet(FindById(results.items, view.viewSheet.item.id))])

SheetArrays == { [k \in 1..n |-> RawPump] : n \in 1..MaxSheetRecords }

InitSheet == BulkInit(SheetArrays, {NoSheet}, <<>>)

BoundedSheet ==
  /\ Len(history') <= MaxSheetDepth
  /\ UNCHANGED <<undoLog, reply, study, clipboard, bulk>>

NextSheet ==
  \/ (\E i \in 1..Len(results.items) :
        view.viewSheet.isNull /\ handleGenerateSingleSheet(i) /\ UNCHANGED view)
       /\ BoundedSheet
  \/ (\E sheet \in ServiceSheets : SingleSheetShown(sheet)) /\ BoundedSheet
  \/ SingleSheetFailed /\ UNCHANGED view /\ BoundedSheet
  \/ (\E i \in 1..Len(results.items) : setViewSheet(i)) /\ BoundedSheet
  \/ closeSheet /\ BoundedSheet
  \/ handleAddStep /\ BoundedSheet
  \/ (\E idx \in 1..MaxSteps : handleDeleteStep(idx)) /\ BoundedSheet
  \/ handleInternalUndo /\ BoundedSheet

SpecSheet == InitSheet /\ [][NextSheet]_vars

(***************************************************************************)
(* SpecApplyAll: the proposals of two messages, the first with three       *)
(* proposals and the second with one, applied to a generated dataset one   *)
(* by one (applySingleAction) and by message (applyAllActions,             *)
(* AICopilot.tsx 267-324), with undo.  A proposal carries the index of its *)
(* message.                                                                *)
(***************************************************************************)
InMessage(p, messageIndex) ==
  [type |-> p.type, item |-> p.item, applied |-> FALSE, message |-> messageIndex]

\* message.proposals
ProposalsOf(messageIndex) == SelectSeq(messages, LAMBDA p : p.message = messageIndex)

\* x || 1
Or1(x) == IF x = 0 THEN 1 ELSE x

\* the ADD branch of applyAllActions: the defaults, then ...proposal.item; the
\* record has no isNew key (read as false) unless the item brings one
NewItemOfAll(item, newId) ==
  LET s == NumberOr(item, "severity", 5)
      o == NumberOr(item, "occurrence", 3)
      d == NumberOr(item, "detection", 3)
  IN Spread([id |-> newId,
             component |-> StringOr(item, "component", "New Subsystem"),
             criticality |-> StringOr(item, "criticality", "Medium"),
             severity |-> s, occurrence |-> o, detection |-> d,
             rpn |-> s * o * d,
             isNew |-> FALSE,
             inspectionSheet |-> NoSheet], item)

\* the UPDATE branch of applyAllActions
UpdatedItemOfAll(rec, item) ==
  LET updated == Spread(rec, item)
  IN [updated EXCEPT
        !.rpn = Or1(updated.severity) * Or1(updated.occurrence) * Or1(updated.detection)]

\* one round of unapplied.forEach
ApplyOfAll(items, p, newId) ==
  CASE p.type = "ADD" -> Append(items, NewItemOfAll(p.item, newId))
    [] p.type = "UPDATE" /\ (TruthyNum(p.item, "id") \/ TruthyStr(p.item, "component")) ->
         [i \in 1..Len(items) |->
            IF IsMatch(items[i], p.item) THEN UpdatedItemOfAll(items[i], p.item) ELSE items[i]]
    [] p.type = "DELETE" -> DeleteData(items, p.item)
    [] OTHER -> items

Adds(proposals) == Len(SelectSeq(proposals, LAMBDA p : p.type = "ADD"))

\* unapplied.forEach(...): newData after the proposals, each ADD with an id of its own
RECURSIVE ApplyEach(_, _, _)
ApplyEach(items, proposals, newId) ==
  IF proposals = <<>> THEN items
  ELSE ApplyEach(ApplyOfAll(items, Head(proposals), newId), Tail(proposals),
                 IF Head(proposals).type = "ADD" THEN newId + 1 ELSE newId)

\* every proposal of the message that has an item, applied or not
unappliedOrApplied(proposals) == SelectSeq(proposals, LAMBDA p : Has(p, "item"))

\* message.proposals.filter(p => !p.applied && p.item)
unapplied(proposals) == SelectSeq(proposals, LAMBDA p : ~p.applied /\ Has(p, "item"))

\* Implement All is rendered while more than one proposal of the message is not applied
applyAllActions(messageIndex) ==
  /\ Len(SelectSeq(ProposalsOf(messageIndex), LAMBDA p : ~p.applied)) > 1
  /\ unapplied(ProposalsOf(messageIndex)) # <<>>
  /\ handleResultsUpdate(results,
       ApplyEach(Items(results), unapplied(ProposalsOf(messageIndex)), nextId + 1))
  /\ nextId' = nextId + Adds(unapplied(ProposalsOf(messageIndex)))
  /\ messages' = [k \in 1..Len(messages) |->
                    IF messages[k].message = messageIndex
                    THEN [messages[k] EXCEPT !.applied = TRUE] ELSE messages[k]]
  /\ UNCHANGED <<isMerging, gen, edit, regen, sheetJob>>

ApplyAllProposals ==
  { [type |-> "ADD", item |-> [component |-> "Test Bearing",
                               severity |-> 9, occurrence |-> 4, detection |-> 7]],
    [type |-> "UPDATE", item |-> [id |-> 1, severity |-> 2]],
    [type |-> "DELETE", item |-> [id |-> 2]] }

InitApplyAll ==
  \E a \in ApplyAllProposals, b \in ApplyAllProposals,
     c \in ApplyAllProposals, d \in ApplyAllProposals :
    BulkInit({<<RawPump, RawBearing>>}, {NoSheet},
             <<InMessage(a, 1), InMessage(b, 1), InMessage(c, 1), InMessage(d, 2)>>)

NextApplyAll ==
  \/ (\E k \in 1..Len(messages) : applySingleAction(k)) /\ UNCHANGED <<undoLog, io>>
  \/ (\E messageIndex \in 1..2 : applyAllActions(messageIndex)) /\ UNCHANGED <<undoLog, io>>
  \/ Len(history) > 0 /\ handleUndo /\ UNCHANGED <<undoLog, io>>

SpecApplyAll == InitApplyAll /\ [][NextApplyAll]_vars

(***************************************************************************)
(* SpecSaveUndo: saves of a dataset that has a history.  Records are       *)
(* deleted and the deletions undone while explicit saves and auto-saves    *)
(* are started, succeed and fail, and a new study is started.              *)
(***************************************************************************)
InitSaveUndo == BulkInit(SheetArrays, {NoSheet}, <<>>)

NextSaveUndo ==
  \/ Len(Items(results)) > 0 /\ Len(history) < MaxSheetDepth /\ handleDelete(1)
       /\ UNCHANGED <<undoLog, io>>
  \/ Len(history) > 0 /\ handleUndo /\ UNCHANGED <<undoLog, io>>
  \/ Len(saves) < MaxSaves /\ handleSaveStudy(FALSE, NewStudyId) /\ UNCHANGED undoLog
  \/ Len(saves) < MaxSaves /\ AutoSave(NewStudyId) /\ UNCHANGED undoLog
  \/ (\E k \in 1..Len(saves) : SaveDone(k)) /\ UNCHANGED undoLog
  \/ (\E k \in 1..Len(saves) : SaveFailed(k)) /\ UNCHANGED undoLog
  \/ JustSavedExpires /\ UNCHANGED undoLog
  \/ ~results.isNull /\ handleNewStudy
       /\ UNCHANGED <<undoLog, reply, studyStore, saves, justSaved, clipboard>>

SpecSaveUndo == InitSaveUndo /\ [][NextSaveUndo]_vars

(***************************************************************************)
(* SpecBulkSave: the auto-save timer during a bulk sheet generation over a *)
(* dataset of Pump records without sheets.  The interval's callback runs   *)
(* whenever no save is awaiting the store.                                 *)
(***************************************************************************)
NextBulkSave ==
  \/ bulk = NoBulk /\ handleGenerateAllSheets /\ UNCHANGED undoLog
  \/ Settle /\ UNCHANGED undoLog
  \/ ChunkCommit /\ UNCHANGED undoLog
  \/ saves = <<>> /\ AutoSave(NewStudyId) /\ UNCHANGED undoLog
  \/ saves # <<>> /\ SaveDone(1) /\ UNCHANGED undoLog
  \/ saves # <<>> /\ SaveFailed(1) /\ UNCHANGED undoLog

SpecBulkSave == InitBulkFair /\ [][NextBulkSave]_vars

(***************************************************************************)
(* SpecSaveIds: the ids of the saves of one working study.  Explicit saves *)
(* and auto-saves of a generated dataset start at different times, overlap,*)
(* succeed and fail.                                                       *)
(***************************************************************************)
NextSaveIds ==
  \/ Len(saves) < MaxSaves /\ (\E now \in StudyIds : handleSaveStudy(FALSE, now))
       /\ UNCHANGED undoLog
  \/ Len(saves) < MaxSaves /\ (\E now \in StudyIds : AutoSave(now)) /\ UNCHANGED undoLog
  \/ (\E k \in 1..Len(saves) : SaveDone(k)) /\ UNCHANGED undoLog
  \/ (\E k \in 1..Len(saves) : SaveFailed(k)) /\ UNCHANGED undoLog
  \/ JustSavedExpires /\ UNCHANGED undoLog

SpecSaveIds == InitSaveUndo /\ [][NextSaveIds]_vars

(***************************************************************************)
(* SpecBulkSingle: bulk sheet generations over a dataset of Pump records   *)
(* without sheets while the sheets of single records are generated, shown  *)
(* and closed.  generatingSheets is the one flag of both functions.  The   *)
(* single-record generations start while the history holds fewer than      *)
(* MaxBulkDepth snapshots; a bulk generation starts first or while one is  *)
(* in flight.                                                              *)
(***************************************************************************)
setGeneratingSheets(value) == bulk' = [bulk EXCEPT !.generatingSheets = value]

NextBulkSingle ==
  \/ view.viewSheet.isNull /\ (bulk = NoBulk \/ bulk.running) /\ handleGenerateAllSheets
       /\ UNCHANGED undoLog
  \/ Settle /\ UNCHANGED undoLog
  \/ ChunkCommit /\ UNCHANGED undoLog
  \/ (\E i \in 1..Len(results.items) : view.viewSheet.isNull /\ handleGenerateSingleSheet(i))
       /\ Len(history) < MaxBulkDepth
       /\ setGeneratingSheets(TRUE)
       /\ UNCHANGED <<undoLog, reply, study, clipboard, view>>
  \/ (\E sheet \in SheetOutputs : SingleSheetShown(sheet))
       /\ setGeneratingSheets(FALSE)
       /\ UNCHANGED <<undoLog, reply, study, clipboard>>
  \/ SingleSheetFailed /\ setGeneratingSheets(FALSE)
       /\ UNCHANGED <<undoLog, reply, study, clipboard, view>>
  \/ closeSheet /\ UNCHANGED <<undoLog, reply, study, clipboard, bulk>>

SpecBulkSingle == InitBulkFair /\ [][NextBulkSingle]_vars

(***************************************************************************)
(* SpecSheetUndo: the sheet view of a dataset of one record that has a     *)
(* sheet of the service: the view is opened and closed, steps are added    *)
(* and deleted, and undo is pressed in the view.                           *)
(***************************************************************************)
InitSheetUndo == BulkInit({<<RawPump>>}, ServiceSheets, <<>>)

NextSheetUndo ==
  \/ setViewSheet(1) /\ BoundedSheet
  \/ closeSheet /\ BoundedSheet
  \/ handleAddStep /\ BoundedSheet
  \/ (\E idx \in 1..MaxSteps : handleDeleteStep(idx)) /\ BoundedSheet
  \/ handleInternalUndo /\ BoundedSheet

SpecSheetUndo == InitSheetUndo /\ [][NextSheetUndo]_vars

(***************************************************************************)
(* The claims.                                                             *)
(***************************************************************************)
Product(r) == r.severity * r.occurrence * r.detection
Ids(items) == {items[i].id : i \in 1..Len(items)}

\* the step marks proposal k applied: applySingleAction acted on it
AppliedStep(k) == ~messages[k].applied /\ k <= Len(messages') /\ messages'[k].applied

\* C1: in every reachable dataset every record's rpn is the product of the
\* severity, occurrence and detection stored in that same record.
C1_RpnIsProduct ==
  \A i \in 1..Len(results.items) : results.items[i].rpn = Product(results.items[i])

\* C2: record ids are pairwise distinct in every reachable dataset, and an
\* UPDATE leaves the ids of the dataset as they were.
C2_IdsDistinct ==
  /\ [](\A i, j \in 1..Len(results.items) :
          i # j => results.items[i].id # results.items[j].id)
  /\ [][\A k \in 1..Len(messages) :
          (AppliedStep(k) /\ messages[k].type = "UPDATE")
             => Ids(results'.items) = Ids(results.items)]_vars

\* C3: the history never holds more than 30 snapshots, and a push made at
\* length 30 discards the oldest snapshot and keeps the other 29 in order.
C3_HistoryBounded ==
  /\ [](Len(history) <= HistoryLimit)
  /\ [][(Len(history) = HistoryLimit /\ Len(undoLog'.trail) > Len(undoLog.trail))
          => /\ Len(history') = HistoryLimit
             /\ SubSeq(history', 1, HistoryLimit - 1) = Tail(history)
             /\ history'[HistoryLimit] = results.items]_vars

C3_Witness ==
  /\ Mutations = HistoryLimit + 1
  /\ AllApplied
  /\ undoLog.undos = 0
  /\ Len(history) = HistoryLimit
  /\ history[1] = undoLog.trail[2]

\* C4: after n mutations of a generated dataset D0 and u undos the dataset is
\* the one that was current n - u mutations in, as long as u is at most n and
\* at most 30; from then on undo changes nothing and the history is empty.
\* So n <= 30 mutations and n undos restore D0; after 31 mutations 30 undos
\* restore the dataset that followed the first mutation, the 31st undo
\* changes nothing and no number of undos restores D0.
C4_UndoRestores ==
  LET n == Mutations
      u == undoLog.undos
      kept == IF n < HistoryLimit THEN n ELSE HistoryLimit
  IN undoLog.trail # <<>> =>
       /\ u <= kept => results.items = undoLog.trail[n - u + 1]
       /\ u >= kept => results.items = undoLog.trail[n - kept + 1] /\ history = <<>>
       /\ n > HistoryLimit => results.items # undoLog.trail[1]

C4_Witness ==
  /\ Mutations = HistoryLimit + 1
  /\ undoLog.undos = HistoryLimit + 1
  /\ results.items = undoLog.trail[2]
  /\ undoLog.trail[2] # undoLog.trail[1]
  /\ Len(undoLog.trail[1]) > 0

\* C5: every call of the update entry point pushes the dataset that was
\* current immediately before the call.
C5_SnapshotIsCurrent ==
  [][(\/ handleSave
      \/ RegenerationDone
      \/ SingleSheetDone
      \/ \E i \in 1..Len(results.items) : handleDelete(i)
      \/ \E k \in 1..Len(messages) : applySingleAction(k))
       => history' = PushSnapshot(history, Items(results))]_vars

C7_AddAppends ==
  [][\A k \in 1..Len(messages) :
       (AppliedStep(k) /\ messages[k].type = "ADD") =>
         LET item == messages[k].item
             old == results.items
             s == IF TruthyNum(item, "severity") THEN item.severity ELSE 5
             o == IF TruthyNum(item, "occurrence") THEN item.occurrence ELSE 3
             d == IF TruthyNum(item, "detection") THEN item.detection ELSE 3
             new == results'.items[Len(old) + 1]
         IN /\ Len(results'.items) = Len(old) + 1
            /\ SubSeq(results'.items, 1, Len(old)) = old
            /\ new.id \notin Ids(old)
            /\ new.isNew
            /\ new.severity = s /\ new.occurrence = o /\ new.detection = d
            /\ new.rpn = s * o * d
            /\ new.criticality =
                 (IF TruthyStr(item, "criticality") THEN item.criticality
                  ELSE IF s >= 8 THEN "High" ELSE IF s >= 5 THEN "Medium" ELSE "Low")]_vars

\* C8: applying an UPDATE proposal whose item.id is the id of a record gives
\* that record the item's fields, the product of its scores as rpn and
\* isNew false, and changes nothing else: not its other fields, not the
\* other records, not the length, not the order.
C8_UpdateByIdFrame ==
  [][\A k \in 1..Len(messages) :
       (/\ AppliedStep(k) /\ messages[k].type = "UPDATE"
        /\ TruthyNum(messages[k].item, "id")
        /\ messages[k].item.id \in Ids(results.items)) =>
         LET item == messages[k].item
             old == results.items
         IN /\ Len(results'.items) = Len(old)
            /\ \A i \in 1..Len(old) :
                 LET was == old[i]
                     now == results'.items[i]
                 IN IF was.id = item.id
                    THEN /\ DOMAIN now = DOMAIN was
                         /\ \A f \in DOMAIN was \ {"rpn", "isNew"} :
                              now[f] = IF f \in DOMAIN item THEN item[f] ELSE was[f]
                         /\ now.rpn = Product(now)
                         /\ now.isNew = FALSE
                    ELSE now = was]_vars

\* C9: applying the same UPDATE proposal twice in succession leaves the
\* dataset that applying it once left.
C9_UpdateIdempotent ==
  (/\ Len(messages) = 2
   /\ messages[1].type = "UPDATE" /\ messages[2].item = messages[1].item
   /\ messages[1].applied /\ messages[2].applied
   /\ Len(history) = 2)
    => results.items = history[2]

C9_Witness ==
  /\ Len(messages) = 2
  /\ messages[1].type = "UPDATE" /\ messages[2].item = messages[1].item
  /\ messages[1].applied /\ messages[2].applied
  /\ Len(history) = 2
  /\ history[2] # history[1]
  /\ results.items = history[2]

\* C10: an UPDATE proposal without item.id changes at most the first record
\* whose component is item.component: every other record is in the dataset
\* afterwards as it was.
C10_UpdateFirstByComponent ==
  [][\A k \in 1..Len(messages) :
       (/\ AppliedStep(k) /\ messages[k].type = "UPDATE"
        /\ ~Has(messages[k].item, "id") /\ Has(messages[k].item, "component")) =>
         LET item == messages[k].item
             old == results.items
             IsFirst(i) == /\ old[i].component = item.component
                           /\ \A j \in 1..(i - 1) : old[j].component # item.component
         IN /\ Len(results'.items) = Len(old)
            /\ \A i \in 1..Len(old) : ~IsFirst(i) => old[i] \in Range(results'.items)]_vars

\* the proposal's target is not in the dataset: no record has the item's id,
\* or, for an UPDATE whose item has no id, no record has the item's component
TargetMissing(p, items) ==
  IF TruthyNum(p.item, "id") THEN p.item.id \notin Ids(items)
  ELSE /\ p.type = "UPDATE"
       /\ \A i \in 1..Len(items) :
            ~(Has(p.item, "component") /\ items[i].component = p.item.component)

\* C11: applying an UPDATE or DELETE proposal whose target is not in the
\* dataset leaves the dataset as it was: same records, same values, same
\* order, same length.
C11_MissingTargetNoOp ==
  [][\A k \in 1..Len(messages) :
       (/\ AppliedStep(k) /\ messages[k].type \in {"UPDATE", "DELETE"}
        /\ TargetMissing(messages[k], results.items))
         => results' = results]_vars

C11_Witness ==
  /\ messages[1].applied /\ ~messages[2].applied
  /\ messages[1].type = "UPDATE"
  /\ Has(messages[1].item, "component")
  /\ Len(history) = 1
  /\ TargetMissing(messages[1], history[1])
  /\ \E i \in 1..Len(history[1]) : history[1][i].component = messages[1].item.component
  /\ results.items = history[1]

\* C12: applying a DELETE proposal with item.id takes the record with that id
\* out of the dataset and leaves the other records and their order as they
\* were; applying a DELETE proposal without item.id removes nothing.
C12_DeleteFrame ==
  [][\A k \in 1..Len(messages) :
       (AppliedStep(k) /\ messages[k].type = "DELETE") =>
         LET item == messages[k].item
             old == results.items
             now == results'.items
         IN IF TruthyNum(item, "id") /\ item.id \in Ids(old)
            THEN \E i \in 1..Len(old) :
                   /\ old[i].id = item.id
                   /\ now = SubSeq(old, 1, i - 1) \o SubSeq(old, i + 1, Len(old))
            ELSE now = old]_vars

C12_Witness ==
  /\ messages[1].applied /\ ~messages[2].applied
  /\ messages[1].type = "DELETE"
  /\ Len(history) = 1
  /\ Len(history[1]) = 2
  /\ messages[1].item.id = history[1][2].id
  /\ results.items = <<history[1][1]>>

\* the delimited region a token lies strictly inside, if any: it ends at the
\* first </ACTION> after the token and starts at the first <ACTION> after the
\* </ACTION> before that one
RegionEnd(text, n) == Least({j \in n..Len(text) : text[j] = Close})
RegionStart(text, j) ==
  LET before == {k \in 1..(j - 1) : text[k] = Close}
      after == IF before = {} THEN 0 ELSE CHOOSE k \in before : \A l \in before : l <= k
  IN Least({i \in (after + 1)..(j - 1) : text[i] = Open})
InRegion(text, n) ==
  /\ text[n] \notin {Open, Close}
  /\ \E j \in n..Len(text) : text[j] = Close
  /\ \E i \in 1..(n - 1) :
       /\ text[i] = Open
       /\ \A k \in i..n : text[k] # Close
\* the token is the payload of a block whose payload parses
IsPayload(text, n) ==
  /\ InRegion(text, n)
  /\ text[n].kind = "json"
  /\ \A k \in (RegionStart(text, RegionEnd(text, n)) + 1)..(RegionEnd(text, n) - 1) :
       k # n => text[k] = Space
\* an object that has an item or is a DELETE
HasItemOrDelete(a) ==
  /\ DOMAIN a \subseteq {"type", "item"}
  /\ \/ "item" \in DOMAIN a /\ DOMAIN a.item # {"isNull"}
     \/ "type" \in DOMAIN a /\ a.type = "DELETE"
RECURSIVE ObjectsUpTo(_, _)
ObjectsUpTo(text, n) ==
  IF n = 0 THEN <<>>
  ELSE ObjectsUpTo(text, n - 1)
         \o (IF IsPayload(text, n) THEN SelectSeq(text[n].actions, HasItemOrDelete) ELSE <<>>)
\* the blocks of a text, as pairs of marker positions
Blocks(text) ==
  {<<i, j>> \in (1..Len(text)) \X (1..Len(text)) :
     /\ text[j] = Close
     /\ \E k \in 1..(j - 1) : text[k] = Open /\ \A l \in k..(j - 1) : text[l] # Close
     /\ i = RegionStart(text, j)}
WellFormedSingle(text, b) ==
  /\ b[2] = b[1] + 2
  /\ text[b[1] + 1].kind = "json"
  /\ Len(text[b[1] + 1].actions) = 1
  /\ HasItemOrDelete(text[b[1] + 1].actions[1])
Malformed(text, b) == \A n \in (b[1] + 1)..(b[2] - 1) : ~IsPayload(text, n)

\* C13: the proposals of a shown response are, in document order, one for
\* every object that has an item or is a DELETE inside every block whose
\* payload parses, whatever blocks with unparsable payloads stand before,
\* between or after; two well-formed single-object blocks and one malformed
\* block, in any position, give exactly two proposals
C13_ProposalPerObject ==
  reply.shown =>
    LET objects == ObjectsUpTo(reply.text, Len(reply.text))
        blocks == Blocks(reply.text)
    IN /\ Len(messages) = Len(objects)
       /\ \A n \in 1..Len(objects) :
            /\ messages[n].type = (IF "type" \in DOMAIN objects[n] THEN objects[n].type ELSE "")
            /\ "item" \in DOMAIN objects[n] /\ DOMAIN objects[n].item # {"isNull"}
                 => messages[n].item = objects[n].item
            /\ ~messages[n].applied
       /\ (/\ Cardinality(blocks) = 3
           /\ Cardinality({b \in blocks : WellFormedSingle(reply.text, b)}) = 2
           /\ Cardinality({b \in blocks : Malformed(reply.text, b)}) = 1)
            => Len(messages) = 2

\* a malformed block stands first, two well-formed single-object blocks follow
C13_Witness ==
  /\ reply.shown
  /\ Len(reply.text) = 9
  /\ Blocks(reply.text) = {<<1, 3>>, <<4, 6>>, <<7, 9>>}
  /\ Malformed(reply.text, <<1, 3>>)
  /\ WellFormedSingle(reply.text, <<4, 6>>) /\ WellFormedSingle(reply.text, <<7, 9>>)
  /\ Len(messages) = 2
  /\ messages[1].type = "ADD" /\ messages[2].type = "DELETE"

\* the tokens of a text outside its blocks
Covered(text, n) == \E b \in Blocks(text) : b[1] <= n /\ n <= b[2]
RECURSIVE OutsideUpTo(_, _)
OutsideUpTo(text, n) ==
  IF n = 0 THEN <<>>
  ELSE OutsideUpTo(text, n - 1) \o (IF Covered(text, n) THEN <<>> ELSE <<text[n]>>)

\* C14: the cleanText of a shown response is the text outside the delimited
\* regions, trimmed: every region is removed with its markers, also one whose
\* payload does not parse or gives no proposal, so that no marker of a region
\* is left in it
C14_RegionsRemoved ==
  reply.shown =>
    /\ reply.cleanText = Trim(OutsideUpTo(reply.text, Len(reply.text)))
    /\ (\A n \in 1..Len(reply.text) : reply.text[n] \in {Open, Close} => Covered(reply.text, n))
         => \A n \in 1..Len(reply.cleanText) : reply.cleanText[n] \notin {Open, Close}

\* C15: every record's severity, occurrence and detection is an integer of
\* 1..10 and its rpn one of 1..1000, whatever generation, a proposal's item
\* or the edit form supplied
C15_ScoresInRange ==
  \A i \in 1..Len(results.items) :
    /\ results.items[i].severity \in 1..10
    /\ results.items[i].occurrence \in 1..10
    /\ results.items[i].detection \in 1..10
    /\ results.items[i].rpn \in 1..1000

\* C16: every document handed to the Study Store by a save, explicit or
\* automatic, has isNew = FALSE on every item
C16_StoredItemsNotNew ==
  ~studyStore.isEmpty => \A i \in 1..Len(studyStore.items) : ~studyStore.items[i].isNew

\* an explicit save and then an auto-save of a freshly generated dataset
C16_Witness ==
  /\ Len(saves) = 2 /\ ~saves[1].isAutoSave /\ saves[2].isAutoSave
  /\ ~studyStore.isEmpty /\ studyStore.auto
  /\ Len(studyStore.items) = 2
  /\ Len(results.items) = 2
  /\ \A i \in 1..2 : results.items[i].isNew /\ studyStore.items[i].id = results.items[i].id

\* C17: when an explicit save completes, every record of the dataset in
\* memory has isNew = FALSE
C17_SavedDatasetNotNew ==
  [][\A k \in 1..Len(saves) :
       (SaveDone(k) /\ ~saves[k].isAutoSave)
         => \A i \in 1..Len(results'.items) : ~results'.items[i].isNew]_vars

\* C18: when a merge generation completes, every record the dataset held
\* immediately before is still present with its fields other than isNew
\* unchanged, also when the dataset changed after the request was started
C18_MergeKeepsRecords ==
  [][(gen.active /\ gen.merging /\ ~gen'.active)
       => \A i \in 1..Len(results.items) :
            \E j \in 1..Len(results'.items) :
              [results'.items[j] EXCEPT !.isNew = FALSE]
                = [results.items[i] EXCEPT !.isNew = FALSE]]_vars

\* C19: starting a full (non-merge) generation empties the dataset and the
\* history; when it completes, the dataset consists only of the records it
\* returned and the history is empty, so that undo cannot bring back a
\* record of the previous dataset
C19_FullRegenerationForgets ==
  [][/\ (~gen.active /\ gen'.active /\ ~gen'.merging)
          => results'.items = <<>> /\ history' = <<>>
     /\ (gen.active /\ ~gen.merging /\ ~gen'.active /\ nextId' # nextId)
          => /\ history' = <<>>
             /\ \A i \in 1..Len(results'.items) : results'.items[i].id > nextId]_vars

\* the table a spreadsheet reads back from an emitted text: a tab or a
\* newline is outside a quoted cell when an even number of double quotes
\* stands before it; a newline outside ends a row, a tab outside a cell; a
\* cell that opens with a double quote is read without its two outer quotes
\* and with each doubled quote inside as one
QuotesIn(text, a, b) == Cardinality({i \in a..b : text[i] = Quote})
Nth(S, n) == CHOOSE i \in S : Cardinality({j \in S : j <= i}) = n
Unquoted(raw) ==
  IF raw = <<>> \/ raw[1] # Quote THEN raw
  ELSE LET inner == SubSeq(raw, 2, Len(raw) - 1)
           keep == {j \in 1..Len(inner) : inner[j] # Quote \/ QuotesIn(inner, 1, j) % 2 = 1}
       IN [n \in 1..Cardinality(keep) |-> inner[Nth(keep, n)]]
ReadRow(line) ==
  LET seps == {i \in 1..Len(line) : line[i] = Tab /\ QuotesIn(line, 1, i) % 2 = 0}
      n == Cardinality(seps)
  IN [k \in 1..(n + 1) |->
        Unquoted(SubSeq(line, IF k = 1 THEN 1 ELSE Nth(seps, k - 1) + 1,
                              IF k = n + 1 THEN Len(line) ELSE Nth(seps, k) - 1))]
RowEnd(text, from) ==
  LET ends == {j \in from..Len(text) : text[j] = Newline /\ QuotesIn(text, from, j) % 2 = 0}
  IN IF ends = {} THEN Len(text) + 1 ELSE Least(ends)
RECURSIVE ReadTable(_, _)
ReadTable(text, from) ==
  <<ReadRow(SubSeq(text, from, RowEnd(text, from) - 1))>>
    \o (IF RowEnd(text, from) > Len(text) THEN <<>> ELSE ReadTable(text, RowEnd(text, from) + 1))

\* the rule of the escaping, and a table emitted by it
EscapedByRule(str) ==
  LET special == {i \in 1..Len(str) : str[i] \in {Tab, Newline, Quote}}
      quotesBefore(n) == Cardinality({i \in 1..n : str[i] = Quote})
      doubled == [n \in 1..(Len(str) + quotesBefore(Len(str))) |->
                    LET i == CHOOSE i \in 1..Len(str) :
                               i + quotesBefore(i - 1) <= n /\ n <= i + quotesBefore(i)
                    IN str[i]]
  IN IF special = {} THEN str ELSE <<Quote>> \o doubled \o <<Quote>>
EmittedByRule(table) ==
  Join([r \in 1..Len(table) |->
          Join([k \in 1..Len(table[r]) |->
                  IF r = 1 THEN table[r][k] ELSE EscapedByRule(table[r][k])], Tab)], Newline)
ExportedTable(format) ==
  IF format = "full"
  THEN <<Headers>> \o Concat([i \in 1..Len(processedData) |-> CopyRows(processedData[i])])
  ELSE <<ClassicalHeaders>>
         \o Concat([i \in 1..Len(processedData) |-> ClassicalRows(processedData, i)])

\* C20: in both export formats the text a copy puts on the clipboard is the
\* table of the view with every cell escaped by the one rule (wrapped in
\* double quotes, the double quotes inside doubled, when it holds a tab, a
\* newline or a double quote; verbatim otherwise), and reading it back,
\* taking every tab and newline outside a quoted cell as a separator, gives
\* the table's rows and cells
C20_ExportEscapes ==
  [][(handleCopy \/ handleClassicalCopy) =>
       /\ clipboard'.text = EmittedByRule(ExportedTable(clipboard'.format))
       /\ ReadTable(clipboard'.text, 1) = ExportedTable(clipboard'.format)]_vars

\* a failureMode holding a tab, exported in both formats as one quoted cell
C20_Witness ==
  /\ clipboard.format = "classical"
  /\ Len(results.items) = 1
  /\ results.items[1].component = <<Quote, Newline>>
  /\ Len(results.items[1].inspectionSheet.steps) = 2
  /\ Len(ReadTable(clipboard.text, 1)) = 3
  /\ ReadTable(clipboard.text, 1)[2][1] = <<Quote, Newline>>
  /\ ReadTable(clipboard.text, 1)[3][7] = <<Newline>>

\* the rows an export gives a record, and the row of the emitted table its
\* first row is (row 1 is the header row)
RowsOfRecord(item) == IF HasSteps(item) THEN Len(item.inspectionSheet.steps) ELSE 1
RECURSIVE RowsBefore(_, _)
RowsBefore(items, i) ==
  IF i = 1 THEN 0 ELSE RowsBefore(items, i - 1) + RowsOfRecord(items[i - 1])
FirstRowOf(items, i) == 2 + RowsBefore(items, i)

\* C21: in the classical export the first row of every record shows the
\* record's component and its other identification columns, and every later
\* step row of the record leaves them blank, also for a record whose
\* component equals that of the record exported just before it
C21_ClassicalFirstRowShowsRecord ==
  [][handleClassicalCopy =>
    LET table == ReadTable(clipboard'.text, 1)
    IN \A i \in 1..Len(processedData) :
         LET item == processedData[i]
             first == FirstRowOf(processedData, i)
         IN /\ table[first][1] = TextCell(item, "component")
            /\ table[first][2] = TextCell(item, "failureMode")
            /\ table[first][3] = TextCell(item, "maintenanceTask")
            /\ table[first][4] = TextCell(item, "interval")
            /\ table[first][5] = TextCell(item, "taskType")
            /\ \A k \in 1..(RowsOfRecord(item) - 1) :
                 \A c \in 1..5 : table[first + k][c] = <<>>]_vars

\* C22: the flat export is the header row followed, for each record of the
\* view in view order, by max(1, number of steps) rows; every one of them
\* repeats the 15 record fields of the record; a record without a sheet or
\* without steps gives one row whose step-number cell is empty
C22_FlatRowsPerStep ==
  [][handleCopy =>
       LET table == ReadTable(clipboard'.text, 1)
           rowsOf(item) ==
             IF Len(item.inspectionSheet.steps) > 1 THEN Len(item.inspectionSheet.steps) ELSE 1
       IN /\ table[1] = Headers
          /\ Len(table) = 1 + RowsBefore(processedData, Len(processedData) + 1)
          /\ \A i \in 1..Len(processedData) :
               LET item == processedData[i]
                   first == FirstRowOf(processedData, i)
               IN /\ first = 2 + RowsBefore(processedData, i)
                  /\ \A k \in 0..(rowsOf(item) - 1) :
                       /\ Len(table[first + k]) = 19
                       /\ SubSeq(table[first + k], 1, 15) = BaseRow(item)
                       /\ table[first + k][16] =
                            (IF item.inspectionSheet.present /\ item.inspectionSheet.steps # <<>>
                             THEN <<ToString(item.inspectionSheet.steps[k + 1].step)>>
                             ELSE <<>>)]_vars

\* two records in ascending order of rpn, the first with two steps and the
\* second without a sheet: the header, two rows, one row
C22_Witness ==
  /\ clipboard.format = "full"
  /\ view.sortConfig.direction = "asc" /\ view.barFilter.isNull
  /\ Len(results.items) = 2
  /\ ~results.items[1].inspectionSheet.present
  /\ Len(results.items[2].inspectionSheet.steps) = 2
  /\ results.items[2].component = <<Quote, Newline>>
  /\ LET table == ReadTable(clipboard.text, 1)
     IN /\ Len(table) = 4
        /\ table[2][1] = <<Quote, Newline>> /\ table[2][12] = <<"56">> /\ table[2][16] = <<"1">>
        /\ table[3][1] = <<Quote, Newline>> /\ table[3][12] = <<"56">> /\ table[3][16] = <<"2">>
        /\ table[4][12] = <<"252">> /\ table[4][16] = <<>>

\* C23: in every state of the view, a click on a risk-matrix cell or a chart
\* bar that is the active filter clears that filter; a click on any other
\* cell or bar makes it the filter, replacing the one that was active, and a
\* second click on it leaves the filters and the projected view as they are
\* with that filter inactive.
C23_FilterTogglesInvolutive ==
  ~results.isNull =>
    /\ \A cell \in ViewCells :
         LET selected == [isNull |-> FALSE, s |-> cell[1], o |-> cell[2]]
             inactive == [view EXCEPT !.matrixFilter = NoMatrixFilter]
             once == [view EXCEPT !.matrixFilter =
                        MatrixFilterAfterClick(view.matrixFilter, cell[1], cell[2])]
             twice == [once EXCEPT !.matrixFilter =
                         MatrixFilterAfterClick(once.matrixFilter, cell[1], cell[2])]
         IN IF view.matrixFilter = selected
            THEN /\ once = inactive
                 /\ twice = view
            ELSE /\ once = [view EXCEPT !.matrixFilter = selected]
                 /\ twice = inactive
                 /\ ProjectedView(Items(results), twice)
                      = ProjectedView(Items(results), inactive)
    /\ \A id \in Ids(Items(results)) :
         LET selected == [isNull |-> FALSE, id |-> id]
             inactive == [view EXCEPT !.barFilter = NoBarFilter]
             once == [view EXCEPT !.barFilter = BarFilterAfterClick(view.barFilter, id)]
             twice == [once EXCEPT !.barFilter = BarFilterAfterClick(once.barFilter, id)]
         IN IF view.barFilter = selected
            THEN /\ once = inactive
                 /\ twice = view
            ELSE /\ once = [view EXCEPT !.barFilter = selected]
                 /\ twice = inactive
                 /\ ProjectedView(Items(results), twice)
                      = ProjectedView(Items(results), inactive)

\* both filters active, each hiding a record the other shows
C23_Witness ==
  /\ Len(Items(results)) = 3
  /\ ~view.matrixFilter.isNull
  /\ ~view.barFilter.isNull
  /\ Len(processedData) = 1
  /\ Len(ProjectedView(Items(results), [view EXCEPT !.matrixFilter = NoMatrixFilter])) = 1
  /\ Len(ProjectedView(Items(results), [view EXCEPT !.barFilter = NoBarFilter])) = 2

\* C24: in the projected view, whatever the sort key and direction, no
\* record without a value on the key stands before a record with one, and
\* the records with a value stand in ascending or descending order of it, as
\* the direction says.
C24_MissingLastPresentOrdered ==
  LET key == view.sortConfig.key
      Value(item) == IF key = "rpn" THEN item[key] ELSE LocaleRank(item[key])
      shown == processedData
  IN \A i, j \in 1..Len(shown) :
       i < j =>
         /\ Has(shown[j], key) => Has(shown[i], key)
         /\ Has(shown[i], key) /\ Has(shown[j], key) =>
              IF view.sortConfig.direction = "asc"
              THEN Value(shown[i]) <= Value(shown[j])
              ELSE Value(shown[i]) >= Value(shown[j])

\* descending by consequence category: the dataset holds the record without
\* one first, the view shows it last, after "Operational" and "Hidden"
C24_Witness ==
  /\ view.sortConfig = [key |-> "consequenceCategory", direction |-> "desc"]
  /\ Len(processedData) = 3
  /\ ~Has(results.items[1], "consequenceCategory")
  /\ Has(processedData[1], "consequenceCategory")
  /\ processedData[1].consequenceCategory = "Operational"
  /\ Has(processedData[2], "consequenceCategory")
  /\ processedData[2].consequenceCategory = "Hidden"
  /\ processedData[3] = results.items[1]

\* the sub-requests in flight, the chunk of a sub-request and the chunks of n items
InFlight == {p \in 1..Len(bulk.promises) : bulk.promises[p] = "pending"}
ChunkOf(p) == (p + 2) \div 3
Chunks(n) == (n + 2) \div 3

\* the record of the captured dataset the p-th item of itemsToProcess is: the
\* p-th record without a sheet
OwnIndex(items, p) ==
  CHOOSE i \in 1..Len(items) :
    /\ ~items[i].inspectionSheet.present
    /\ Cardinality({j \in 1..i : ~items[j].inspectionSheet.present}) = p

\* C25: each commit of a bulk generation leaves the dataset it was started on
\* with a sheet on exactly the records that had one and the records whose own
\* sub-request, of this chunk or an earlier one, succeeded, whichever
\* sub-requests failed; and the next chunk, if there is one, is issued.
C25_FailureAffectsOwnRecordOnly ==
  [][ChunkCommit =>
       LET before == bulk.cap.items
           after == results'.items
           succeeded == {OwnIndex(before, p) : p \in {q \in 1..Len(bulk.promises) :
                                                       bulk.promises[q] = "fulfilled"}}
       IN /\ Len(after) = Len(before)
          /\ \A i \in 1..Len(before) :
               /\ [after[i] EXCEPT !.inspectionSheet = NoSheet]
                    = [before[i] EXCEPT !.inspectionSheet = NoSheet]
               /\ after[i].inspectionSheet.present
                    <=> (before[i].inspectionSheet.present \/ i \in succeeded)
          /\ bulk'.running =>
               \A p \in 1..Len(bulk.promises) :
                 ChunkOf(p) = bulk'.committed + 1 => bulk'.promises[p] = "pending"]_vars

\* C26: at most 3 sub-requests of a bulk generation are in flight; every
\* sub-request of a committed chunk has settled; and every sub-request
\* issued is of a committed chunk or of the chunk that follows them.
C26_ChunkedIssueAndCommit ==
  /\ Cardinality(InFlight) <= 3
  /\ \A p \in 1..Len(bulk.promises) :
       /\ ChunkOf(p) <= bulk.committed => bulk.promises[p] \in {"fulfilled", "rejected"}
       /\ bulk.promises[p] # "unissued" => ChunkOf(p) <= bulk.committed + 1

\* the first chunk committed with a failure in it, the second chunk in flight
C26_Witness ==
  /\ bulk.running
  /\ bulk.committed = 1
  /\ Len(bulk.promises) = 4
  /\ bulk.promises[2] = "rejected"
  /\ bulk.promises[3] = "fulfilled"
  /\ bulk.promises[4] = "pending"
  /\ ~results.isNull
  /\ results.items[3].inspectionSheet.present

\* C27: a bulk generation that was started ends: all the chunks of its
\* itemsToProcess are committed and generatingSheets is false, whichever
\* sub-requests fail and whatever the user does meanwhile.
C27_BulkRunsToCompletion ==
  [](bulk.running =>
       <>(/\ ~bulk.running
          /\ ~bulk.generatingSheets
          /\ bulk.committed = Chunks(Len(bulk.itemsToProcess))))

\* two chunks committed after a failure in each, the user having deleted a
\* record and started a new study meanwhile
C27_Witness ==
  /\ ~bulk.running
  /\ ~bulk.generatingSheets
  /\ bulk.committed = 2
  /\ Len(bulk.itemsToProcess) = 4
  /\ bulk.promises[1] = "rejected"
  /\ bulk.promises[4] = "rejected"
  /\ undoLog.undos >= 2
  /\ Len(history) = 1

\* C28: the steps of every inspection sheet of the dataset are numbered
\* 1..n in sequence order: the k-th step has step = k.
C28_StepsNumbered ==
  \A i \in 1..Len(results.items) :
    results.items[i].inspectionSheet.present =>
      \A k \in 1..Len(results.items[i].inspectionSheet.steps) :
        results.items[i].inspectionSheet.steps[k] = k

\* proposals the step marks applied
NewlyApplied == {k \in 1..Len(messages) : ~messages[k].applied /\ messages'[k].applied}

\* C29: a proposal that is marked applied stays so, and no apply request
\* acts for it again: a step that changes the dataset or the history is an
\* undo or marks a proposal applied that was not; it pushes at most one
\* snapshot and hands out one id per ADD proposal it marks, none for a
\* proposal applied before.
C29_AppliedAtMostOnce ==
  [][/\ \A k \in 1..Len(messages) : messages[k].applied => messages'[k].applied
     /\ (results' # results \/ history' # history) =>
          \/ NewlyApplied # {}
          \/ history # <<>> /\ history' = Front(history) /\ messages' = messages
     /\ NewlyApplied # {} => Len(history') <= Len(history) + 1
     /\ nextId' - nextId = Cardinality({k \in NewlyApplied : messages[k].type = "ADD"})]_vars

\* every proposal applied, the first one by itself, the other two of its
\* message by Implement All: three ADD proposals gave three records
C29_Witness ==
  /\ \A k \in 1..Len(messages) : messages[k].applied
  /\ \A k \in 1..3 : messages[k].type = "ADD"
  /\ messages[4].type = "UPDATE"
  /\ Len(history) = 3
  /\ Len(results.items) = 5
  /\ nextId = 5

\* C30: a save leaves the dataset and the undo history as they are, when it
\* starts and when it ends; and a save that ends without having stored the
\* study (justSaved is not set) leaves the current study id as it is.
C30_SaveLeavesStateAlone ==
  [][/\ Len(saves') # Len(saves) => results' = results /\ history' = history
     /\ (Len(saves') < Len(saves) /\ ~justSaved') => currentStudyId' = currentStudyId]_vars

\* a dataset with a snapshot in its history was handed to the store, no
\* save is pending or has succeeded, and the study still has no id
C30_Witness ==
  /\ saves = <<>>
  /\ ~studyStore.isEmpty
  /\ ~studyStore.auto
  /\ ~justSaved
  /\ currentStudyId = ""
  /\ Len(history) > 0
  /\ studyStore.items = ClearNew(results.items)

\* records of the stored document that the running bulk generation is to
\* give a sheet
StoredTargets ==
  {i \in 1..Len(studyStore.items) :
     \E p \in 1..Len(bulk.itemsToProcess) : bulk.itemsToProcess[p].id = studyStore.items[i].id}

\* C31: a running bulk sheet generation does not keep the auto-save timer
\* from saving: while it runs over a dataset with records, the interval's
\* callback can hand the dataset to the Study Store.
C31_AutoSaveNotExcluded ==
  (bulk.running /\ Len(Items(results)) > 0) => ENABLED AutoSave(NewStudyId)

\* between the first and the second chunk commit of a generation over four
\* records, the store was handed the dataset by an auto-save: some of the
\* four have their sheet in it and some have not
C31_Witness ==
  /\ bulk.running
  /\ bulk.committed = 1
  /\ Len(bulk.itemsToProcess) = 4
  /\ ~studyStore.isEmpty
  /\ studyStore.auto
  /\ Cardinality(StoredTargets) = 4
  /\ \E i \in StoredTargets : studyStore.items[i].inspectionSheet.present
  /\ \E i \in StoredTargets : ~studyStore.items[i].inspectionSheet.present

\* C32: deriving the views leaves the dataset as it is, the order of its
\* records included: a full generation that completes leaves in the dataset
\* the records in the order generateRCMAnalysis returned them, that of their ids.
C32_ViewsLeaveDataset ==
  [][(gen.active /\ ~gen.merging /\ ~gen'.active /\ ~results'.isNull)
       => \A i \in 1..Len(results'.items) : \A j \in 1..Len(results'.items) :
            i < j => results'.items[i].id < results'.items[j].id]_vars

StripSheet(r) == [r EXCEPT !.inspectionSheet = NoSheet]

\* C33: a chunk commit sets the dataset to the copy taken when the bulk
\* generation started, with sheets added and nothing else changed, whatever
\* the dataset is at the commit.
C33_CommitRestoresStartCopy ==
  [][bulk'.committed = bulk.committed + 1 =>
       /\ Len(results'.items) = Len(bulk.cap.items)
       /\ \A i \in 1..Len(bulk.cap.items) :
            StripSheet(results'.items[i]) = StripSheet(bulk.cap.items[i])]_vars

\* a record was deleted while the first chunk was in flight, and the commit
\* of the chunk put it back: the dataset has the records of the start copy
\* again, and the history holds the start copy twice, pushed by the deletion
\* and by the commit
C33_Witness ==
  /\ bulk.committed = 1
  /\ Len(bulk.cap.items) = 2
  /\ Len(results.items) = 2
  /\ ~messages[1].applied
  /\ history = <<bulk.cap.items, bulk.cap.items>>

\* C34: every save that starts once the current study id is set writes to
\* one and the same id: the saves awaiting the store that started with an id
\* set were all handed that id.
C34_LaterSavesWriteOneId ==
  \A j \in 1..Len(saves) : \A k \in 1..Len(saves) :
    (saves[j].currentId # "" /\ saves[k].currentId # "")
      => saves[j].idToSave = saves[k].idToSave

\* C35: generatingSheets does not keep bulk generations apart: whenever a bulk
\* generation is in flight and the flag is false (a single-record generation
\* that finished has reset it) while a record has no sheet, a second bulk
\* generation can be started.
C35_FlagDoesNotExclude ==
  (/\ bulk.running
   /\ ~bulk.generatingSheets
   /\ ~bulk.second.started
   /\ ~results.isNull
   /\ \E i \in 1..Len(results.items) : ~results.items[i].inspectionSheet.present)
    => ENABLED handleGenerateAllSheets

\* a second bulk generation was started after the first chunk of the first was
\* committed, and the first is still to commit its second chunk
C35_Witness ==
  /\ bulk.running
  /\ bulk.committed = 1
  /\ bulk.second.started
  /\ bulk.second.cap.items = bulk.currentData
  /\ Len(bulk.second.itemsToProcess) = 1
  /\ Len(bulk.itemsToProcess) = 4

\* C36: when the request of a generation fails (the request ends and neither
\* the dataset nor the ids change), a full generation leaves the dataset
\* empty and the history empty, so that undo recovers nothing of the dataset
\* held before the request; a merge generation leaves the dataset and the
\* history as they were
C36_FailedGenerationLeavesNoTrace ==
  [][(gen.active /\ ~gen'.active /\ results' = results /\ nextId' = nextId)
       => /\ history' = history
          /\ ~gen.merging => results'.isNull /\ history' = <<>>]_vars

\* C37: a completed merge generation leaves the history as it was: no
\* snapshot holds a merged record, and an undo yields the last snapshot of
\* the history and nothing else, so that the first undo after a merge
\* removes the merged records and never yields the dataset the merge replaced
\* unless the history holds it
C37_MergePushesNoSnapshot ==
  [][/\ (gen.active /\ gen.merging /\ ~gen'.active)
          => /\ history' = history
             /\ \A s \in 1..Len(history') : \A k \in 1..Len(history'[s]) :
                  history'[s][k].id <= nextId
     /\ (Len(history') = Len(history) - 1 /\ gen' = gen /\ ~results'.isNull)
          => results' = Rendered(Last(history))]_vars

\* a merge completed after an edit: the history holds the dataset before
\* the edit and the dataset holds the edited record and a merged one
C37_Witness ==
  /\ ~gen.active
  /\ isMerging
  /\ Len(history) = 1
  /\ Len(history[1]) = 1
  /\ Len(results.items) = 2
  /\ \E i \in 1..2 : results.items[i].id = 2 /\ results.items[i].isNew
  /\ \E i \in 1..2 : /\ results.items[i].id = history[1][1].id
                       /\ [results.items[i] EXCEPT !.isNew = FALSE]
                            # [history[1][1] EXCEPT !.isNew = FALSE]

\* the records a step operation makes of item
StepEdits(item) ==
  {WithSteps(item, StepsAfterAdd(item.inspectionSheet.steps))}
    \cup {WithSteps(item, StepsAfterDelete(item.inspectionSheet.steps, idx)) :
             idx \in 1..Len(item.inspectionSheet.steps)}

\* C38: while the sheet view is open on a record, an undo leaves the view
\* holding the record of the dataset before the undo, not the restored one;
\* a step operation makes its record of the view's copy and writes it over
\* the dataset's record of that id, whatever that record holds
C38_StepWritesViewCopy ==
  [][(~view.viewSheet.isNull /\ ~view'.viewSheet.isNull /\ sheetJob' = sheetJob)
       => LET id == view.viewSheet.item.id
          IN /\ (Len(history') = Len(history) - 1 /\ FindIndex(results.items, id) # 0)
                  => view'.viewSheet.item = FindById(results.items, id)
             /\ Len(history') = Len(history) + 1
                  => /\ view'.viewSheet.item \in StepEdits(view.viewSheet.item)
                     /\ FindById(results'.items, id) = view'.viewSheet.item]_vars

\* a step was deleted and undone in the sheet view, then one added: the
\* snapshot holds the restored record with its two steps and the dataset the
\* record made of the view's copy
C38_Witness ==
  /\ ~view.viewSheet.isNull
  /\ Len(results.items) = 1
  /\ Len(history) = 1
  /\ history[1][1].inspectionSheet.steps = <<2, 1>>
  /\ results.items[1] = view.viewSheet.item
  /\ results.items[1].inspectionSheet.steps = <<1, 2>>

=============================================================================
